---- MODULE Spec2Model ----
(***************************************************************************)
(* Model of the HVAC acquisition research dashboard (river-ai):            *)
(*   - the scoring engine, lib/scoring/calculator.ts                       *)
(*   - the research pipeline orchestrator, lib/research/pipeline.ts        *)
(* Scores are JavaScript Numbers (IEEE-754 doubles).  The weighted sums    *)
(* of calculator.ts are modelled with the doubles' rounding, see Dbl below.*)
(***************************************************************************)
EXTENDS Integers, Naturals, Sequences, FiniteSets, TLC

VARIABLES
    now,          \* the wall clock read by `new Date()`: year * SlotsPerYear + slot
    businesses,   \* prisma.business with its relations: id -> row
    scores,       \* prisma.score: the set of stored Score rows
    lastCall,     \* per business id, the latest completed calculateBusinessScore call
    thrown,       \* the error the latest calculateBusinessScore call threw, if any
    recCall,      \* one call of getRecommendation: its arguments and its result
    batch,        \* one call of batchScoreBusinesses: its arguments and its locals
    calls,        \* the concurrent calculateBusinessScore invocations in flight
    pc,           \* where the run of runRegionDiscoveryPipeline stands
    params,       \* the run's ResearchJobParameters
    progress,     \* the run's PipelineProgress record
    result,       \* the run's PipelineResult record
    locals,       \* the other locals of the run and of the functions it awaits
    job,          \* prisma.researchJob: the row of the run's job
    pending,      \* the progress writes issued without await and not yet completed
    published,    \* what onProgress was called with, in call order
    occurred,     \* the pipeline-level errors that occurred during the run
    unhandled,    \* whether a progress write issued without await was rejected
    researchJobBusiness,  \* prisma.researchJobBusiness: <<job id, business id>> links
    faults,       \* the rejections the store and the services may still answer with
    runs,         \* the number of times startResearchJob was called for the job
    cancel        \* where the call of cancelResearchJob stands

scoreVars == <<now, businesses, scores, lastCall, thrown, recCall, batch, calls>>

pipeVars == <<pc, params, progress, result, locals, job, pending, published, occurred,
              unhandled, researchJobBusiness, faults, runs, cancel>>

vars == <<scoreVars, pipeVars>>

(***************************************************************************)
(* Optional values: `undefined`/`null` is the empty set, a value v is {v}. *)
(***************************************************************************)
None == {}

Some(v) == {v}

Val(o) == CHOOSE v \in o : TRUE

\* `x || 0` for an optional number: undefined, null and 0 all give 0
OrZero(o) == IF o = None THEN 0 ELSE Val(o)

Max(a, b) == IF a >= b THEN a ELSE b

Min(a, b) == IF a <= b THEN a ELSE b

Abs(a) == IF a >= 0 THEN a ELSE 0 - a

(***************************************************************************)
(* IEEE-754 double arithmetic on the values the scorers compute.           *)
(* A double x is the pair [n, e] with  x = n/200 + e * 2^-60 / 200 :       *)
(* n is the decimal value the source text denotes (in 1/200ths) and e the  *)
(* representation error the double carries.  RN rounds a real given this   *)
(* way to the nearest double (ties to even), as every JS operator does.    *)
(***************************************************************************)
Pow2(k) == 2^k

\* 2^k modulo 400 for k >= 4, without computing 2^k: 400 = 16 * 25, and the
\* powers of two modulo 25 repeat with period 20
Pow2Mod400(k) == 16 * ((2^((k - 4) % 20)) % 25)

DblZero == [n |-> 0, e |-> 0]

\* floor(log2 q) for an integer 1 <= q < 2^17
Log2Floor(q) ==
    IF q < 256
    THEN IF q < 16
         THEN IF q < 4 THEN (IF q < 2 THEN 0 ELSE 1) ELSE (IF q < 8 THEN 2 ELSE 3)
         ELSE IF q < 64 THEN (IF q < 32 THEN 4 ELSE 5) ELSE (IF q < 128 THEN 6 ELSE 7)
    ELSE IF q < 4096
         THEN IF q < 1024 THEN (IF q < 512 THEN 8 ELSE 9) ELSE (IF q < 2048 THEN 10 ELSE 11)
         ELSE IF q < 16384 THEN (IF q < 8192 THEN 12 ELSE 13)
              ELSE (IF q < 32768 THEN 14 ELSE IF q < 65536 THEN 15 ELSE 16)

\* the power of two at or below x (just below, when x is a hair under one):
\* j = floor(log2 x) + 8 for the real x = [n, e], n > 0, given j for n alone
DblExpAdjust(n8, e, j) == IF 200 * Pow2(j) = n8 /\ e < 0 THEN j - 1 ELSE j

DblExp8(n8, e) == DblExpAdjust(n8, e, Log2Floor(n8 \div 200))

\* x = [n, e] moved to a neighbouring double: r is x's distance above the
\* double below it, g the gap between the two, odd whether the double below
\* has an odd mantissa (ties go to the even one)
RoundTo(n, e, r, g, odd) ==
    IF 2 * r < g \/ (2 * r = g /\ ~odd)
    THEN [n |-> n, e |-> e - r]
    ELSE [n |-> n, e |-> e - r + g]

\* R is x modulo 2g
RoundMod(n, e, R, g) == RoundTo(n, e, R % g, g, R >= g)

\* the doubles around x are 2^(ex-52) apart, that is g = 200 * 2^m units of e
\* with m = ex + 8
RoundAt(n, e, m) ==
    RoundMod(n, e,
             (Pow2(m) * (((n % 400) * Pow2Mod400(60 - m)) % 400) + e) % (400 * Pow2(m)),
             200 * Pow2(m))

\* round to nearest double, ties to even
RN(n, e) == IF n = 0 /\ e = 0 THEN DblZero ELSE RoundAt(n, e, DblExp8(n * 256, e))

\* the double a decimal literal w100/100 denotes (0.30 is DblLit(30))
DblLit(w100) == RN(2 * w100, 0)

\* s * w for a score s = s2/2 (exact in binary) and a double w
DblMul(s2, w) == RN(s2 * (w.n \div 2), (s2 * w.e) \div 2)

\* a + b
DblAdd(a, b) == RN(a.n + b.n, a.e + b.e)

\* Math.round: the nearest integer, halves up
MathRound(x) ==
    LET q == (x.n + 100) \div 200
    IN  IF (x.n + 100) % 200 = 0 /\ x.e < 0 THEN q - 1 ELSE q

(***************************************************************************)
(* Dates.  A date is year * SlotsPerYear + slot; getFullYear is the year.  *)
(***************************************************************************)
SlotsPerYear == 2

BaseYear == 2026

GetFullYear(d) == d \div SlotsPerYear

\* the dates a permit can carry and the clock can show
Years == (BaseYear - 1)..(BaseYear + 1)

Dates == {y * SlotsPerYear + s : y \in Years, s \in 0..(SlotsPerYear - 1)}

RECURSIVE SumOver(_, _)
SumOver(f, S) ==
    IF S = {} THEN 0
    ELSE LET x == CHOOSE y \in S : TRUE IN f[x] + SumOver(f, S \ {x})

RECURSIVE SumSeq(_, _)
SumSeq(s, i) == IF i = 0 THEN 0 ELSE s[i] + SumSeq(s, i - 1)

\* business.permits.filter(pred).length; permits maps an issueDate (None when
\* the permit has none) to the number of permits carrying it
CountPermits(permits, Pred(_)) ==
    SumOver(permits, {d \in DOMAIN permits : d # None /\ Pred(Val(d))})

(***************************************************************************)
(* ScoringConfig.  Weights are in hundredths: 30 is the literal 0.30.      *)
(***************************************************************************)
\* a FactorConfig, part_009 lines 434-439
FactorConfig(name, weight, scorer) == [name |-> name, weight |-> weight, scorer |-> scorer]

\* the factors tables of DEFAULT_SCORING_CONFIG, lines 31-56
DefaultFactors ==
    [revenueProxy |-> << FactorConfig("employeeCount", 30, "employeeScorer"),
                         FactorConfig("fleetSize", 25, "fleetScorer"),
                         FactorConfig("permitVolume", 25, "permitScorer"),
                         FactorConfig("serviceArea", 20, "serviceAreaScorer") >>,
     onlineWeakness |-> << FactorConfig("websiteQuality", 30, "websiteScorer"),
                           FactorConfig("socialPresence", 20, "socialScorer"),
                           FactorConfig("reviewVolume", 30, "reviewVolumeScorer"),
                           FactorConfig("seoVisibility", 20, "seoScorer") >>,
     acquisitionFit |-> << FactorConfig("ownershipType", 30, "ownershipScorer"),
                           FactorConfig("businessAge", 25, "ageScorer"),
                           FactorConfig("nicheSpecialization", 25, "nicheScorer"),
                           FactorConfig("successionStatus", 20, "successionScorer") >>,
     growthSignals |-> << FactorConfig("permitTrend", 35, "permitTrendScorer"),
                          FactorConfig("reviewTrend", 25, "reviewTrendScorer"),
                          FactorConfig("hiringActivity", 25, "hiringScorer"),
                          FactorConfig("fleetGrowth", 15, "fleetGrowthScorer") >>]

\* DEFAULT_SCORING_CONFIG, lines 16-57
DEFAULT_SCORING_CONFIG ==
    [version |-> "1.0",
     weights |-> [revenueProxy |-> 30, onlineWeakness |-> 25,
                  acquisitionFit |-> 25, growthSignals |-> 20],
     thresholds |-> [highPriority |-> 75, mediumPriority |-> 50, lowPriority |-> 25],
     factors |-> DefaultFactors]

(***************************************************************************)
(* Component scorers.  A ScoreFactor is [name, score, weight]: score is    *)
(* kept in half points (2 * f.score, since permitScore can be k + 0.5) and *)
(* weight in hundredths.  The display fields value and explanation are     *)
(* strings formatted from the same inputs and are left out.                *)
(***************************************************************************)
Factor(name, score, weight) == [name |-> name, score |-> 2 * score, weight |-> weight]

FactorHalf(name, score2, weight) == [name |-> name, score |-> score2, weight |-> weight]

\* factors.reduce((sum, f) => sum + f.score * f.weight, 0), over doubles
RECURSIVE WeightedSum(_, _)
WeightedSum(factors, i) ==
    IF i = 0 THEN DblZero
    ELSE DblAdd(WeightedSum(factors, i - 1),
                DblMul(factors[i].score, DblLit(factors[i].weight)))

\* { score: Math.round(totalScore), factors }
ComponentScore(factors) ==
    [score |-> MathRound(WeightedSum(factors, Len(factors))), factors |-> factors]

\* a faulty variant of EmployeeScore: 20 points per employee below 5, so that
\* 4 employees score more than 5
EmployeeScoreSteep(employeeCount) ==
    IF employeeCount >= 5 /\ employeeCount <= 50 THEN 100 - Abs(employeeCount - 25) * 2
    ELSE IF employeeCount > 50 /\ employeeCount <= 100 THEN 50
    ELSE IF employeeCount > 0 /\ employeeCount < 5 THEN employeeCount * 20
    ELSE 0

\* the employee count factor score, lines 189-197
EmployeeScore(employeeCount) ==
    IF employeeCount >= 5 /\ employeeCount <= 50 THEN 100 - Abs(employeeCount - 25) * 2
    ELSE IF employeeCount > 50 /\ employeeCount <= 100 THEN 50
    ELSE IF employeeCount > 0 /\ employeeCount < 5 THEN employeeCount * 15
    ELSE 0

\* the fleet size factor score, lines 210-218
FleetScore(fleetSize) ==
    IF fleetSize >= 3 /\ fleetSize <= 20 THEN 100 - Abs(fleetSize - 10) * 5
    ELSE IF fleetSize > 20 /\ fleetSize <= 40 THEN 60
    ELSE IF fleetSize > 0 /\ fleetSize < 3 THEN fleetSize * 25
    ELSE 0

\* permits whose issueDate is at or after `new Date()` minus one year
RecentPermits(business, clock) ==
    CountPermits(business.permits, LAMBDA d : d >= clock - SlotsPerYear)

\* the permit volume factor score in half points, lines 237-244
PermitScore2(recentPermits) ==
    IF recentPermits >= 50 /\ recentPermits <= 400
    THEN 2 * (80 + (IF recentPermits >= 100 /\ recentPermits <= 300 THEN 20 ELSE 0))
    ELSE IF recentPermits > 400 THEN 2 * 60
    ELSE IF recentPermits > 0 THEN Min(recentPermits * 3, 2 * 75)
    ELSE 0

\* a faulty variant of AreaScore: an unknown service radius scores 0, not 50
AreaScoreUnknownZero(serviceRadius) ==
    IF serviceRadius > 0
    THEN IF serviceRadius >= 20 /\ serviceRadius <= 75 THEN 90
         ELSE IF serviceRadius > 75 THEN 70
         ELSE serviceRadius * 3
    ELSE 0

\* the service area factor score, lines 255-266
AreaScore(serviceRadius) ==
    IF serviceRadius > 0
    THEN IF serviceRadius >= 20 /\ serviceRadius <= 75 THEN 90
         ELSE IF serviceRadius > 75 THEN 70
         ELSE serviceRadius * 3
    ELSE 50

\* a faulty variant of calculateRevenueProxyScore: the factors are weighted
\* as the config's revenueProxy table says
calculateRevenueProxyScoreConfigured(business, config, clock) ==
    LET employeeCount ==
            IF Len(business.employees) = 0 THEN 0 ELSE business.employees[1]
        fleetSize == IF Len(business.fleet) = 0 THEN 0 ELSE business.fleet[1]
        recentPermits == RecentPermits(business, clock)
        serviceRadius == OrZero(business.serviceRadius)
        table == config.factors.revenueProxy
        weight(k) == IF k <= Len(table) THEN table[k].weight ELSE 0
    IN  ComponentScore(<<
            Factor("Employee Count", EmployeeScore(employeeCount), weight(1)),
            Factor("Fleet Size", FleetScore(fleetSize), weight(2)),
            FactorHalf("Permit Volume", PermitScore2(recentPermits), weight(3)),
            Factor("Service Area", AreaScore(serviceRadius), weight(4)) >>)

\* the Revenue Proxy component, lines 180-285
calculateRevenueProxyScore(business, config, clock) ==
    LET employeeCount ==
            IF Len(business.employees) = 0 THEN 0 ELSE business.employees[1]
        fleetSize == IF Len(business.fleet) = 0 THEN 0 ELSE business.fleet[1]
        recentPermits == RecentPermits(business, clock)
        serviceRadius == OrZero(business.serviceRadius)
    IN  ComponentScore(<<
            Factor("Employee Count", EmployeeScore(employeeCount), 30),
            Factor("Fleet Size", FleetScore(fleetSize), 25),
            FactorHalf("Permit Volume", PermitScore2(recentPermits), 25),
            Factor("Service Area", AreaScore(serviceRadius), 20) >>)

\* JS truthiness of an optional string: undefined, null and "" are falsy
TruthyStr(o) == o # None /\ Val(o) # ""

\* JS truthiness of an optional number: undefined, null and 0 are falsy
TruthyNum(o) == o # None /\ Val(o) # 0

\* business.reviews.reduce((sum, r) => sum + r.reviewCount, 0) || 0
RECURSIVE TotalReviews(_, _)
TotalReviews(reviews, i) ==
    IF i = 0 THEN 0 ELSE TotalReviews(reviews, i - 1) + reviews[i].reviewCount

\* the review volume factor score, lines 332-337
ReviewScore(totalReviews) ==
    IF totalReviews >= 100 THEN 20
    ELSE IF totalReviews >= 50 THEN 40
    ELSE IF totalReviews >= 20 THEN 60
    ELSE IF totalReviews >= 10 THEN 75
    ELSE 90

\* a faulty variant of calculateOnlineWeaknessScore: every social link lowers
\* the social presence score
calculateOnlineWeaknessScoreByLinks(business, config) ==
    LET websiteScore == IF TruthyStr(business.website) THEN 50 ELSE 100
        links == Cardinality({u \in {"facebookUrl", "linkedinUrl", "instagramUrl"} :
                                TruthyStr(business[u])})
        socialScore == 90 - 25 * links
        totalReviews == TotalReviews(business.reviews, Len(business.reviews))
        seoScore == IF TruthyStr(business.website) THEN 50 ELSE 85
    IN  ComponentScore(<<
            Factor("Website Quality", websiteScore, 30),
            Factor("Social Presence", socialScore, 20),
            Factor("Review Volume", ReviewScore(totalReviews), 30),
            Factor("SEO Visibility", seoScore, 20) >>)

\* the Online Weakness component, lines 291-362
calculateOnlineWeaknessScore(business, config) ==
    LET websiteScore == IF TruthyStr(business.website) THEN 50 ELSE 100
        hasSocial == \/ TruthyStr(business.facebookUrl)
                     \/ TruthyStr(business.linkedinUrl)
                     \/ TruthyStr(business.instagramUrl)
        socialScore == IF hasSocial THEN 40 ELSE 90
        totalReviews == TotalReviews(business.reviews, Len(business.reviews))
        seoScore == IF TruthyStr(business.website) THEN 50 ELSE 85
    IN  ComponentScore(<<
            Factor("Website Quality", websiteScore, 30),
            Factor("Social Presence", socialScore, 20),
            Factor("Review Volume", ReviewScore(totalReviews), 30),
            Factor("SEO Visibility", seoScore, 20) >>)

\* the ownership type factor score, lines 375-379
OwnershipScore(ownershipType) ==
    IF ownershipType = Some("FAMILY_OWNED") THEN 100
    ELSE IF ownershipType = Some("FRANCHISE") THEN 30
    ELSE IF ownershipType = Some("PRIVATE_EQUITY") THEN 10
    ELSE IF ownershipType = Some("CORPORATE") THEN 20
    ELSE 50

\* a faulty variant of AgeScore: the branch for more than 50 years is missing,
\* so that such a business gets 10 points per year
AgeScoreUncapped(yearsInBusiness) ==
    IF yearsInBusiness >= 10 /\ yearsInBusiness <= 30 THEN 100
    ELSE IF yearsInBusiness > 30 /\ yearsInBusiness <= 50 THEN 80
    ELSE IF yearsInBusiness >= 5 /\ yearsInBusiness < 10 THEN 70
    ELSE IF yearsInBusiness > 0 THEN yearsInBusiness * 10
    ELSE 50

\* the business age factor score, lines 395-406
AgeScore(yearsInBusiness) ==
    IF yearsInBusiness >= 10 /\ yearsInBusiness <= 30 THEN 100
    ELSE IF yearsInBusiness > 30 /\ yearsInBusiness <= 50 THEN 80
    ELSE IF yearsInBusiness >= 5 /\ yearsInBusiness < 10 THEN 70
    ELSE IF yearsInBusiness > 50 THEN 60
    ELSE IF yearsInBusiness > 0 THEN yearsInBusiness * 10
    ELSE 50

(***************************************************************************)
(* A niche tag is a string, modelled as the sequence of its characters.    *)
(***************************************************************************)
LowerChar(c) ==
    CASE c = "C" -> "c" [] c = "I" -> "i" [] c = "R" -> "r" [] OTHER -> c

\* String.prototype.toLowerCase
ToLowerCase(str) == [i \in 1..Len(str) |-> LowerChar(str[i])]

PremiumNiches ==
    << <<"r", "e", "f", "r", "i", "g", "e", "r", "a", "t", "i", "o", "n">>,
       <<"c", "l", "e", "a", "n", "_", "r", "o", "o", "m", "s">>,
       <<"i", "n", "d", "u", "s", "t", "r", "i", "a", "l">>,
       <<"r", "e", "s", "t", "a", "u", "r", "a", "n", "t", "s">> >>

\* Array.prototype.includes: some element equals x
Includes(arr, x) == \E i \in 1..Len(arr) : arr[i] = x

\* the niche specialization factor score, lines 419-433
NicheScore(niches) ==
    IF Len(niches) > 0
    THEN IF \E i \in 1..Len(niches) : Includes(PremiumNiches, ToLowerCase(niches[i]))
         THEN 100
         ELSE 80
    ELSE 50

\* a faulty variant of SuccessionScore: the owner age sets the score where it
\* should only raise it
SuccessionScoreOverride(successionStatus, ownerAge) ==
    LET byStatus ==
            IF successionStatus = Some("OWNER_RETIRING") THEN 100
            ELSE IF successionStatus = Some("NO_SUCCESSOR") THEN 90
            ELSE IF successionStatus = Some("SUCCESSION_PLANNED") THEN 40
            ELSE IF successionStatus = Some("RECENTLY_TRANSITIONED") THEN 20
            ELSE 50
    IN  IF TruthyNum(ownerAge)
        THEN IF Val(ownerAge) >= 60 THEN 85
             ELSE IF Val(ownerAge) >= 55 THEN 70
             ELSE byStatus
        ELSE byStatus

\* the succession factor score, lines 447-457
SuccessionScore(successionStatus, ownerAge) ==
    LET byStatus ==
            IF successionStatus = Some("OWNER_RETIRING") THEN 100
            ELSE IF successionStatus = Some("NO_SUCCESSOR") THEN 90
            ELSE IF successionStatus = Some("SUCCESSION_PLANNED") THEN 40
            ELSE IF successionStatus = Some("RECENTLY_TRANSITIONED") THEN 20
            ELSE 50
    IN  IF TruthyNum(ownerAge)
        THEN IF Val(ownerAge) >= 60 THEN Max(byStatus, 85)
             ELSE IF Val(ownerAge) >= 55 THEN Max(byStatus, 70)
             ELSE byStatus
        ELSE byStatus

calculateAcquisitionFitScore(business, config, clock) ==
    LET currentYear == GetFullYear(clock)
        yearsInBusiness ==
            IF TruthyNum(business.foundedYear)
            THEN currentYear - Val(business.foundedYear)
            ELSE 0
    IN  ComponentScore(<<
            Factor("Ownership Type", OwnershipScore(business.ownershipType), 30),
            Factor("Business Age", AgeScore(yearsInBusiness), 25),
            Factor("Niche Specialization", NicheScore(business.niches), 25),
            Factor("Succession Status",
                   SuccessionScore(business.successionStatus, business.ownerAge), 20) >>)

(***************************************************************************)
(* growth = (thisYear - lastYear) / lastYear is a double quotient compared *)
(* with the doubles 0.2, 0.1, 0 and -0.1.  Rounding to the nearest double  *)
(* is monotone and maps the real k/10 to the literal's double, and a       *)
(* quotient of two permit counts other than k/10 is farther from it than   *)
(* any rounding error, so each comparison is the comparison of the exact   *)
(* rationals, written here without the division.                           *)
(***************************************************************************)
\* a faulty variant of PermitTrendScore: the boundaries are exclusive
PermitTrendScoreExclusive(thisYearPermits, lastYearPermits) ==
    IF lastYearPermits > 0
    THEN LET diff == thisYearPermits - lastYearPermits
         IN  IF 10 * diff > 2 * lastYearPermits THEN 100
             ELSE IF 10 * diff > lastYearPermits THEN 85
             ELSE IF diff > 0 THEN 70
             ELSE IF 10 * diff > 0 - lastYearPermits THEN 50
             ELSE 30
    ELSE 60

\* the permit trend factor score, lines 497-505
PermitTrendScore(thisYearPermits, lastYearPermits) ==
    IF lastYearPermits > 0
    THEN LET diff == thisYearPermits - lastYearPermits
         IN  IF 10 * diff >= 2 * lastYearPermits THEN 100
             ELSE IF 10 * diff >= lastYearPermits THEN 85
             ELSE IF diff >= 0 THEN 70
             ELSE IF 10 * diff >= 0 - lastYearPermits THEN 50
             ELSE 30
    ELSE 60

\* business.reviews.reduce((sum, r) => sum + r.rating, 0): ratings are in
\* tenths of a star (47 is the double 4.7), the sum is a double
RECURSIVE RatingSum(_, _)
RatingSum(reviews, i) ==
    IF i = 0 THEN DblZero
    ELSE DblAdd(RatingSum(reviews, i - 1), DblLit(10 * reviews[i].rating))

(***************************************************************************)
(* sum / k >= t for a double sum and the double t = t200/200 (4.5, 4.0 or  *)
(* 3.5).  The quotient rounds to t or above exactly when the real sum / k  *)
(* is at least t minus half the gap to the double below t (t has an even   *)
(* mantissa, so the tie goes to t); halfGap is that half gap in units of   *)
(* 2^-60 / 200.                                                            *)
(***************************************************************************)
DblQuotGeq(sum, k, t200, halfGap) ==
    \/ sum.n > k * t200
    \/ sum.n = k * t200 /\ sum.e >= 0 - k * halfGap

\* the review trend factor score, lines 516-526
ReviewTrendScore(reviews) ==
    LET k == Len(reviews)
        sum == RatingSum(reviews, k)
    IN  IF k = 0 THEN 60
        ELSE IF DblQuotGeq(sum, k, 900, 200 * Pow2(9)) THEN 90
        ELSE IF DblQuotGeq(sum, k, 800, 200 * Pow2(8)) THEN 75
        ELSE IF DblQuotGeq(sum, k, 700, 200 * Pow2(8)) THEN 60
        ELSE IF sum.n > 0 THEN 40
        ELSE 60

\* a faulty variant of calculateGrowthSignalsScore: a business with an
\* employee estimate is taken to be hiring, one with a fleet estimate to be
\* growing its fleet
calculateGrowthSignalsScoreEstimated(business, config, clock) ==
    LET currentYear == GetFullYear(clock)
        thisYearPermits ==
            CountPermits(business.permits, LAMBDA d : GetFullYear(d) = currentYear)
        lastYearPermits ==
            CountPermits(business.permits, LAMBDA d : GetFullYear(d) = currentYear - 1)
        hiringScore == IF business.employees = <<>> THEN 60 ELSE 70
        fleetGrowthScore == IF business.fleet = <<>> THEN 60 ELSE 70
    IN  ComponentScore(<<
            Factor("Permit Trend", PermitTrendScore(thisYearPermits, lastYearPermits), 35),
            Factor("Review Trend", ReviewTrendScore(business.reviews), 25),
            Factor("Hiring Activity", hiringScore, 25),
            Factor("Fleet Growth", fleetGrowthScore, 15) >>)

\* the Growth Signals component, lines 479-563
calculateGrowthSignalsScore(business, config, clock) ==
    LET currentYear == GetFullYear(clock)
        thisYearPermits ==
            CountPermits(business.permits, LAMBDA d : GetFullYear(d) = currentYear)
        lastYearPermits ==
            CountPermits(business.permits, LAMBDA d : GetFullYear(d) = currentYear - 1)
        hiringScore == 60
        fleetGrowthScore == 60
    IN  ComponentScore(<<
            Factor("Permit Trend", PermitTrendScore(thisYearPermits, lastYearPermits), 35),
            Factor("Review Trend", ReviewTrendScore(business.reviews), 25),
            Factor("Hiring Activity", hiringScore, 25),
            Factor("Fleet Growth", fleetGrowthScore, 15) >>)

\* a faulty variant of getRecommendation: the high priority boundary is exclusive
getRecommendationExclusive(score, config) ==
    IF score > config.thresholds.highPriority THEN "HIGH_PRIORITY"
    ELSE IF score >= config.thresholds.mediumPriority THEN "MEDIUM_PRIORITY"
    ELSE IF score >= config.thresholds.lowPriority THEN "LOW_PRIORITY"
    ELSE "NOT_RECOMMENDED"

\* getRecommendation(score, config), lines 569-577
getRecommendation(score, config) ==
    IF score >= config.thresholds.highPriority THEN "HIGH_PRIORITY"
    ELSE IF score >= config.thresholds.mediumPriority THEN "MEDIUM_PRIORITY"
    ELSE IF score >= config.thresholds.lowPriority THEN "LOW_PRIORITY"
    ELSE "NOT_RECOMMENDED"

\* a faulty variant of OverallScore: the acquisition fit term is missing
OverallScoreNoAcquisition(rev, onl, acq, gro, weights) ==
    MathRound(
        DblAdd(DblAdd(DblMul(2 * rev, DblLit(weights.revenueProxy)),
                      DblMul(2 * onl, DblLit(weights.onlineWeakness))),
               DblMul(2 * gro, DblLit(weights.growthSignals))))

\* Math.round(rev * w.revenueProxy + onl * w.onlineWeakness + acq * w.acquisitionFit
\*            + gro * w.growthSignals), lines 95-100
OverallScore(rev, onl, acq, gro, weights) ==
    MathRound(
        DblAdd(DblAdd(DblAdd(DblMul(2 * rev, DblLit(weights.revenueProxy)),
                             DblMul(2 * onl, DblLit(weights.onlineWeakness))),
                      DblMul(2 * acq, DblLit(weights.acquisitionFit))),
               DblMul(2 * gro, DblLit(weights.growthSignals))))

\* the Score row built from the four component scores, lines 95-141
BuildScore(businessId, config, rev, onl, acq, gro, overallScore) ==
    [id |-> <<businessId, "_latest">>,
     businessId |-> businessId,
     revenueProxyScore |-> rev.score,
     onlineWeaknessScore |-> onl.score,
     acquisitionFitScore |-> acq.score,
     growthSignalsScore |-> gro.score,
     overallScore |-> overallScore,
     recommendation |-> getRecommendation(overallScore, config),
     breakdown |-> [revenueProxy |-> rev, onlineWeakness |-> onl,
                    acquisitionFit |-> acq, growthSignals |-> gro],
     configVersion |-> config.version]

\* a faulty variant of WithOverall: the overall score is weighted with the
\* default config's weights, whatever config was passed
WithOverallDefaultWeights(businessId, config, rev, onl, acq, gro) ==
    BuildScore(businessId, config, rev, onl, acq, gro,
               OverallScore(rev.score, onl.score, acq.score, gro.score,
                            DEFAULT_SCORING_CONFIG.weights))

\* the overall score and the Score row, lines 95-141
WithOverall(businessId, config, rev, onl, acq, gro) ==
    BuildScore(businessId, config, rev, onl, acq, gro,
               OverallScore(rev.score, onl.score, acq.score, gro.score, config.weights))

\* the Score that calculateBusinessScore computes and upserts, lines 88-141
ComputeScore(businessId, business, config, clock) ==
    WithOverall(businessId, config,
                calculateRevenueProxyScore(business, config, clock),
                calculateOnlineWeaknessScore(business, config),
                calculateAcquisitionFitScore(business, config, clock),
                calculateGrowthSignalsScore(business, config, clock))


(***************************************************************************)
(* The store and calculateBusinessScore.                                   *)
(***************************************************************************)
BusinessIds == {"b1", "b2"}

MaxInflight == 2

\* a faulty variant of Upsert: a row that exists is left as it is
UpsertCreateOnly(table, row) ==
    IF \E r \in table : r.id = row.id THEN table ELSE table \cup {row}

\* a faulty variant of Upsert: the update writes the scores and leaves the
\* recommendation, the breakdown and the config version of the row
UpsertScoresOnly(table, row) ==
    IF \E r \in table : r.id = row.id
    THEN {IF r.id = row.id
          THEN [r EXCEPT !.revenueProxyScore = row.revenueProxyScore,
                         !.onlineWeaknessScore = row.onlineWeaknessScore,
                         !.acquisitionFitScore = row.acquisitionFitScore,
                         !.growthSignalsScore = row.growthSignalsScore,
                         !.overallScore = row.overallScore]
          ELSE r : r \in table}
    ELSE table \cup {row}

\* prisma.score.upsert({ where: { id }, create, update }), lines 114-141: the
\* row with that id gets the update's fields, or the create row is inserted
Upsert(table, row) ==
    IF \E r \in table : r.id = row.id
    THEN {IF r.id = row.id
          THEN [r EXCEPT !.revenueProxyScore = row.revenueProxyScore,
                         !.onlineWeaknessScore = row.onlineWeaknessScore,
                         !.acquisitionFitScore = row.acquisitionFitScore,
                         !.growthSignalsScore = row.growthSignalsScore,
                         !.overallScore = row.overallScore,
                         !.recommendation = row.recommendation,
                         !.breakdown = row.breakdown,
                         !.configVersion = row.configVersion]
          ELSE r : r \in table}
    ELSE table \cup {row}

\* the number of completed calls a lastCall entry records
Calls(entry) == IF entry = None THEN 0 ELSE Val(entry).n

\* the sequence s with its k-th element moved to the front
MoveFirst(s, k) ==
    [j \in 1..Len(s) |-> IF j = 1 THEN s[k] ELSE IF j <= k THEN s[j - 1] ELSE s[j]]

\* the orders in which a relation's rows can come back when the query names
\* no order; the scorers read the first row only
Orders(s) == IF s = <<>> THEN {<<>>} ELSE {MoveFirst(s, k) : k \in 1..Len(s)}

\* what prisma.business.findUnique({ include: { employees: true, fleet: true,
\* ... } }) can return for a stored business, lines 71-82: no orderBy is given
Fetches(business) ==
    {[business EXCEPT !.employees = e, !.fleet = f] :
        e \in Orders(business.employees), f \in Orders(business.fleet)}

\* a faulty variant of ScoreStep: an id that matches no business is scored as
\* a business without data
ScoreStepBlank(businessId, config, rejected) ==
    IF rejected
    THEN /\ thrown' = Some("Database error")
         /\ UNCHANGED <<scores, lastCall>>
    ELSE \E business \in IF businessId \in DOMAIN businesses
                          THEN Fetches(businesses[businessId])
                          ELSE {[name |-> "", city |-> "", county |-> "",
                                 employees |-> <<>>, fleet |-> <<>>,
                                 permits |-> [d \in {} |-> 0], serviceRadius |-> None,
                                 website |-> None, facebookUrl |-> None,
                                 linkedinUrl |-> None, instagramUrl |-> None,
                                 reviews |-> <<>>, ownershipType |-> None,
                                 foundedYear |-> None, niches |-> <<>>,
                                 successionStatus |-> None, ownerAge |-> None]} :
            LET score == ComputeScore(businessId, business, config, now)
            IN  /\ scores' = Upsert(scores, score)
                /\ lastCall' = [lastCall EXCEPT ![businessId] =
                                   Some([business |-> business, config |-> config,
                                         at |-> now, score |-> score,
                                         n |-> Calls(lastCall[businessId]) + 1])]
                /\ thrown' = None

\* the body of calculateBusinessScore(businessId, config), lines 66-144;
\* `rejected` says that the store rejects one of its two queries
ScoreStep(businessId, config, rejected) ==
    IF rejected
    THEN /\ thrown' = Some("Database error")
         /\ UNCHANGED <<scores, lastCall>>
    ELSE IF businessId \notin DOMAIN businesses
    THEN /\ thrown' = Some("Business not found")
         /\ UNCHANGED <<scores, lastCall>>
    ELSE \E business \in Fetches(businesses[businessId]) :
            LET score == ComputeScore(businessId, business, config, now)
            IN  /\ scores' = Upsert(scores, score)
                /\ lastCall' = [lastCall EXCEPT ![businessId] =
                                   Some([business |-> businesses[businessId],
                                         config |-> config,
                                         at |-> now, score |-> score,
                                         n |-> Calls(lastCall[businessId]) + 1])]
                /\ thrown' = None

\* one call of calculateBusinessScore(businessId, config) on a store that
\* answers
calculateBusinessScore(businessId, config) ==
    /\ ScoreStep(businessId, config, FALSE)
    /\ UNCHANGED <<now, businesses, recCall, batch, calls>>
    /\ UNCHANGED pipeVars

\* a faulty variant of BatchPush: the first failure ends the loop
BatchPushAbort(b, outcome) ==
    IF outcome = None
    THEN [b EXCEPT !.i = Len(b.ids)]
    ELSE [b EXCEPT !.i = @ + 1, !.scores = Append(@, Val(outcome)),
                   !.log = Append(@, [id |-> b.ids[b.i + 1], score |-> outcome])]

\* one pass of batchScoreBusinesses' loop, lines 155-162, for the outcome of
\* the call it awaits: the Score is pushed, or the error is logged; log keeps
\* the ids the loop has tried, with what their scoring returned
BatchPush(b, outcome) ==
    [b EXCEPT !.i = @ + 1,
              !.scores = IF outcome = None THEN @ ELSE Append(@, Val(outcome)),
              !.log = Append(@, [id |-> b.ids[b.i + 1], score |-> outcome])]

\* batchScoreBusinesses(businessIds, config), lines 149-165: one pass of its
\* loop; the call has returned batch.scores when every id has been tried
batchScoreBusinesses ==
    /\ batch.i < Len(batch.ids)
    /\ LET id == batch.ids[batch.i + 1]
       IN  \E rejected \in BOOLEAN :
            /\ ScoreStep(id, batch.config, rejected)
            /\ batch' = BatchPush(batch,
                            IF thrown' # None THEN None
                            ELSE {r \in scores' : r.businessId = id})
    /\ UNCHANGED <<now, businesses, recCall, calls>>
    /\ UNCHANGED pipeVars

\* calculateBusinessScore(businessId, config) as one of several invocations
\* in flight, one action per await.  The invocation is made: findUnique, lines
\* 71-82, is sent
scoreInvoke(c, config) ==
    /\ calls[c].pc = "idle"
    /\ calls' = [calls EXCEPT ![c] = [@ EXCEPT !.pc = "findUnique",
                                              !.config = Some(config)]]
    /\ UNCHANGED <<now, businesses, scores, lastCall, thrown, recCall, batch>>
    /\ UNCHANGED pipeVars

\* findUnique answers; the scores are computed and the upsert is sent, lines
\* 84-114
scoreFindUnique(c, businessId) ==
    /\ calls[c].pc = "findUnique"
    /\ IF businessId \notin DOMAIN businesses
       THEN /\ thrown' = Some("Business not found")
            /\ calls' = [calls EXCEPT ![c] = [@ EXCEPT !.pc = "threw"]]
       ELSE \E business \in Fetches(businesses[businessId]) :
            /\ calls' = [calls EXCEPT ![c] =
                            [@ EXCEPT !.pc = "upsert",
                                      !.row = Some(ComputeScore(businessId, business,
                                                                Val(calls[c].config), now))]]
            /\ UNCHANGED thrown
    /\ UNCHANGED <<now, businesses, scores, lastCall, recCall, batch>>
    /\ UNCHANGED pipeVars

\* prisma.score.upsert, lines 114-141, in the store: the row with the id is
\* looked up
scoreUpsertSelect(c) ==
    /\ calls[c].pc = "upsert"
    /\ calls' = [calls EXCEPT ![c] =
                    [@ EXCEPT !.pc = "write",
                              !.exists = \E r \in scores :
                                            r.id = Val(calls[c].row).id]]
    /\ UNCHANGED <<now, businesses, scores, lastCall, thrown, recCall, batch>>
    /\ UNCHANGED pipeVars

\* prisma.score.upsert in the store: the row is updated or inserted by one
\* statement; an insert of an id that another invocation has inserted since
\* the lookup violates the key and the upsert is rejected
scoreUpsertWrite(c) ==
    /\ calls[c].pc = "write"
    /\ IF ~calls[c].exists /\ \E r \in scores : r.id = Val(calls[c].row).id
       THEN /\ thrown' = Some("Unique constraint failed")
            /\ calls' = [calls EXCEPT ![c] = [@ EXCEPT !.pc = "threw"]]
            /\ UNCHANGED scores
       ELSE /\ scores' = Upsert(scores, Val(calls[c].row))
            /\ calls' = [calls EXCEPT ![c] = [@ EXCEPT !.pc = "returned"]]
            /\ UNCHANGED thrown
    /\ UNCHANGED <<now, businesses, lastCall, recCall, batch>>
    /\ UNCHANGED pipeVars

\* time passes between two calls
Tick ==
    /\ now + 1 \in Dates
    /\ now' = now + 1
    /\ UNCHANGED <<businesses, scores, lastCall, thrown, recCall, batch, calls>>
    /\ UNCHANGED pipeVars

\* one call of getRecommendation(score, config), lines 569-577
Recommend ==
    /\ recCall.result = None
    /\ recCall' = [recCall EXCEPT !.result =
                      Some(getRecommendation(recCall.score, recCall.config))]
    /\ UNCHANGED <<now, businesses, scores, lastCall, thrown, batch, calls>>
    /\ UNCHANGED pipeVars

(***************************************************************************)
(* Inputs.  Businesses are drawn from families built around two profiles:  *)
(* the record with no optional field populated and the ideal target.       *)
(***************************************************************************)
Merge(base, part) ==
    [k \in DOMAIN base |-> IF k \in DOMAIN part THEN part[k] ELSE base[k]]

NoPermits == [d \in {} |-> 0]

\* the business with every optional field absent
BlankBusiness ==
    [name |-> "Blank HVAC", city |-> "Austin", county |-> "Travis",
     employees |-> <<>>, fleet |-> <<>>, permits |-> NoPermits, serviceRadius |-> None,
     website |-> None, facebookUrl |-> None, linkedinUrl |-> None, instagramUrl |-> None,
     reviews |-> <<>>, ownershipType |-> None, foundedYear |-> None, niches |-> <<>>,
     successionStatus |-> None, ownerAge |-> None]

\* the clock at which a specification starts: the last slot of BaseYear
StartClock == BaseYear * SlotsPerYear + (SlotsPerYear - 1)

\* permits by age at StartClock: `old` were issued last calendar year but more
\* than twelve months ago, `prev` last calendar year within twelve months,
\* `cur` this calendar year, `undated` carry no issueDate
PermitBag(old, prev, cur, undated) ==
    LET all == (Some((BaseYear - 1) * SlotsPerYear) :> old)
               @@ (Some(StartClock - SlotsPerYear) :> prev)
               @@ (Some(BaseYear * SlotsPerYear) :> cur)
               @@ (None :> undated)
    IN  [d \in {x \in DOMAIN all : all[x] > 0} |-> all[d]]

\* one shape per branch of the permit volume and permit trend scorers
PermitShapes ==
    { <<0, 0, 0, 0>>, <<0, 49, 1, 0>>, <<40, 100, 200, 0>>, <<0, 100, 201, 0>>,
      <<0, 200, 201, 0>>, <<5, 5, 11, 0>> }

MorePermitShapes == { <<0, 0, 1, 3>>, <<5, 5, 12, 0>>, <<0, 10, 9, 0>>, <<10, 0, 8, 1>> }

PermitBags(shapes) == {PermitBag(p[1], p[2], p[3], p[4]) : p \in shapes}

\* the inputs of the Revenue Proxy component: every combination of one value
\* per branch of each factor, and each further value on its own
RevenueInputs ==
    [employees : {<<>>, <<4>>, <<25, 3>>, <<51>>},
     fleet : {<<>>, <<2>>, <<10, 1>>, <<21>>},
     permits : PermitBags(PermitShapes),
     serviceRadius : {None, Some(1), Some(20), Some(76)}]
    \cup {[employees |-> <<e>>] : e \in {-1, 0, 5, 50, 101}}
    \cup {[fleet |-> <<f>>] : f \in {0, 3, 20, 41}}
    \cup {[permits |-> p] : p \in PermitBags(MorePermitShapes)}
    \cup {[serviceRadius |-> Some(r)] : r \in {-1, 0, 19}}

Review(rating, reviewCount) == [rating |-> rating, reviewCount |-> reviewCount]

MoreReviewLists ==
    {<<Review(r, c)>> : r \in {0, 34, 35, 40, 45}, c \in {0, 9, 10, 50, 100}}
    \cup {<<Review(44, 5), Review(46, 5)>>, <<Review(47, 19), Review(43, 1)>>,
          <<Review(33, 30), Review(36, 19), Review(36, 0)>>,
          <<Review(0, 60), Review(50, 39), Review(41, 1)>>}

\* the inputs of the Online Weakness component
OnlineInputs ==
    [website : {None, Some("https://example.com")},
     facebookUrl : {None, Some("fb")}, linkedinUrl : {None, Some("li")},
     instagramUrl : {None, Some("ig")},
     reviews : {<<>>, <<Review(45, 10)>>, <<Review(30, 20)>>, <<Review(39, 50)>>,
                <<Review(50, 60), Review(10, 40)>>}]
    \cup {[website |-> Some("")], [facebookUrl |-> Some("")]}
    \cup {[reviews |-> r] : r \in MoreReviewLists}

Refrigeration == <<"r", "e", "f", "r", "i", "g", "e", "r", "a", "t", "i", "o", "n">>

Residential == <<"r", "e", "s", "i", "d", "e", "n", "t", "i", "a", "l">>

\* the inputs of the Acquisition Fit component
AcquisitionInputs ==
    [ownershipType : {None} \cup {Some(t) : t \in {"FAMILY_OWNED", "FRANCHISE",
                                                   "PRIVATE_EQUITY", "CORPORATE"}},
     foundedYear : {None} \cup {Some(BaseYear - k) : k \in {4, 5, 10, 31, 51}},
     niches : { <<>>, <<Refrigeration>>, <<Residential>> },
     successionStatus :
        {None} \cup {Some(t) : t \in {"OWNER_RETIRING", "SUCCESSION_PLANNED",
                                      "NO_SUCCESSOR", "RECENTLY_TRANSITIONED"}},
     ownerAge : {None, Some(55), Some(60)}]
    \cup {[ownershipType |-> Some("UNKNOWN")], [successionStatus |-> Some("UNKNOWN")]}
    \cup {[foundedYear |-> Some(y)] : y \in {0, BaseYear + 1, BaseYear}}
    \cup {[niches |-> n] :
            n \in { <<Residential, <<"I", "n", "d", "u", "s", "t", "r", "i", "a", "l">> >>,
                    << <<"i", "c", "e", " ">> \o Refrigeration >> }}
    \cup {[ownerAge |-> Some(a)] : a \in {0, 54, 59}}

\* the ideal acquisition target at StartClock, with its 150 recent permits split
\* `prev` in the prior calendar year and the rest in the current one
IdealBusiness(old, prev, undated, reviews) ==
    [name |-> "Ideal HVAC", city |-> "Austin", county |-> "Travis",
     employees |-> <<25>>, fleet |-> <<10>>,
     permits |-> PermitBag(old, prev, 150 - prev, undated),
     serviceRadius |-> Some(50),
     website |-> None, facebookUrl |-> None, linkedinUrl |-> None, instagramUrl |-> None,
     reviews |-> reviews, ownershipType |-> Some("FAMILY_OWNED"),
     foundedYear |-> Some(BaseYear - 15),
     niches |-> <<Refrigeration>>,
     successionStatus |-> Some("OWNER_RETIRING"), ownerAge |-> Some(62)]

\* review lists with 5 reviews in total
FiveReviewLists ==
    {<<Review(r, 5)>> : r \in {0, 10, 35, 40, 45}}
    \cup {<<Review(r, 2), Review(90 - r, 3)>> : r \in {40, 44, 46}}

\* every split of the 150 permits with the worst and the best ratings, and
\* every review list with three of the splits
IdealBusinesses ==
    {IdealBusiness(older[1], prev, older[2], <<Review(r, 5)>>) :
        older \in {<<0, 0>>, <<40, 2>>}, prev \in 0..150, r \in {10, 45}}
    \cup {IdealBusiness(older[1], prev, older[2], reviews) :
            older \in {<<0, 0>>, <<40, 2>>}, prev \in {0, 75, 150},
            reviews \in FiveReviewLists}

\* businesses mixing a low, a middle and a high scoring part of each kind
MixRevenue ==
    { [employees |-> <<>>, fleet |-> <<>>, permits |-> NoPermits,
       serviceRadius |-> Some(1)],
      [employees |-> <<4>>, fleet |-> <<21>>, permits |-> PermitBag(0, 10, 9, 0),
       serviceRadius |-> None],
      [employees |-> <<25>>, fleet |-> <<10>>, permits |-> PermitBag(0, 100, 120, 0),
       serviceRadius |-> Some(20)] }

MixOnline ==
    { [website |-> Some("https://example.com"), facebookUrl |-> Some("fb"),
       linkedinUrl |-> None, instagramUrl |-> None, reviews |-> <<Review(20, 100)>>],
      [website |-> None, facebookUrl |-> None, linkedinUrl |-> Some("li"),
       instagramUrl |-> None, reviews |-> <<Review(40, 20)>>],
      [website |-> None, facebookUrl |-> None, linkedinUrl |-> None,
       instagramUrl |-> None, reviews |-> <<Review(50, 1)>>] }

MixAcquisition ==
    { [ownershipType |-> Some("PRIVATE_EQUITY"), foundedYear |-> Some(BaseYear - 1),
       niches |-> <<>>, successionStatus |-> Some("RECENTLY_TRANSITIONED"),
       ownerAge |-> Some(40)],
      [ownershipType |-> None, foundedYear |-> Some(BaseYear - 7),
       niches |-> <<Residential>>,
       successionStatus |-> Some("SUCCESSION_PLANNED"), ownerAge |-> Some(57)],
      [ownershipType |-> Some("FAMILY_OWNED"), foundedYear |-> Some(BaseYear - 20),
       niches |-> <<Refrigeration>>,
       successionStatus |-> Some("NO_SUCCESSOR"), ownerAge |-> None] }

MixBusinesses ==
    {Merge(Merge(Merge(BlankBusiness, r), o), a) :
        r \in MixRevenue, o \in MixOnline, a \in MixAcquisition}

BaseProfiles == {BlankBusiness, IdealBusiness(0, 75, 0, <<Review(45, 5)>>)}

ScoreFamily ==
    {Merge(base, part) :
        base \in BaseProfiles,
        part \in RevenueInputs \cup OnlineInputs \cup AcquisitionInputs}
    \cup MixBusinesses \cup IdealBusinesses

Configs ==
    { DEFAULT_SCORING_CONFIG,
      [version |-> "2.0",
       weights |-> [revenueProxy |-> 40, onlineWeakness |-> 30,
                    acquisitionFit |-> 20, growthSignals |-> 10],
       thresholds |-> [highPriority |-> 80, mediumPriority |-> 60, lowPriority |-> 40],
       factors |-> DefaultFactors],
      [version |-> "3.0",
       weights |-> [revenueProxy |-> 55, onlineWeakness |-> 0,
                    acquisitionFit |-> 70, growthSignals |-> 35],
       thresholds |-> [highPriority |-> 50, mediumPriority |-> 75, lowPriority |-> 25],
       factors |-> DefaultFactors] }

IdleRecCall == [score |-> 0, config |-> DEFAULT_SCORING_CONFIG, result |-> Some("idle")]

(***************************************************************************)
(* The research pipeline, lib/research/pipeline.ts.  One run of            *)
(* runRegionDiscoveryPipeline is a sequence of steps, one per await; pc    *)
(* names the await the run stands at.  Every call of the store and of the  *)
(* AI services may succeed or be rejected.  The display strings (message,  *)
(* duration, timestamps) are left out.                                     *)
(***************************************************************************)
JobId == "job1"

\* the order of the stages of PipelineStage other than ERROR, lines 23-31
PipelineStages ==
    <<"INIT", "DISCOVERY", "EXTRACTION", "VALIDATION", "STORAGE", "SCORING", "COMPLETE">>

\* the store serves at most PoolSize queries at a time, oldest first
PoolSize == 2

\* a job is started at most MaxRuns times
MaxRuns == 2

\* waitForResearchCompletion's defaults; times are kept in eighths of a
\* millisecond, which makes every delay * 1.5 below the cap an integer
initialDelayMs == 5000

maxDelayMs == 60000

\* the maxWaitMs that runDiscoveryStage passes, line 238
MaxWaitMs == 30 * 60 * 1000

Eighths(ms) == 8 * ms

\* the PipelineProgress and PipelineResult a run starts with, lines 69-84
InitialProgress ==
    [stage |-> "INIT", progress |-> 0, businessesFound |-> 0,
     businessesProcessed |-> 0, errors |-> <<>>]

InitialResult ==
    [success |-> FALSE, businessIds |-> <<>>,
     stats |-> [discovered |-> 0, validated |-> 0, stored |-> 0, scored |-> 0,
                errors |-> 0]]

\* the options of a waitForResearchCompletion call, in milliseconds
WaitOptions(maxWaitMs_, initialDelayMs_, maxDelayMs_) ==
    [maxWaitMs |-> maxWaitMs_, initialDelayMs |-> initialDelayMs_,
     maxDelayMs |-> maxDelayMs_]

NoWait == WaitOptions(0, 0, 0)

\* options, delay, elapsed, slept and waited belong to waitForResearchCompletion:
\* its options, its `delay`, Date.now() - startTime, the delays it has slept
\* and the result it returned
IdleLocals ==
    [researchTasks |-> 0, responseId |-> None, options |-> NoWait,
     delay |-> 0, elapsed |-> 0, slept |-> <<>>, waited |-> None,
     extracted |-> <<>>, validated |-> <<>>, i |-> 0,
     storedIds |-> <<>>, errorMessage |-> "", failedAt |-> None]

\* the progress record with what has been published and issued so far
Reporting == [progress |-> progress, published |-> published, pending |-> pending]

\* the updateProgress closure, lines 86-90: Object.assign, the onProgress call,
\* and updateJobProgress called without await: its write of progress.progress
\* is issued now and completes later
updateProgress(st, updates) ==
    LET assigned == Merge(st.progress, updates)
    IN  [progress |-> assigned,
         published |-> Append(st.published, [stage |-> assigned.stage,
                                             progress |-> assigned.progress]),
         pending |-> Append(st.pending, assigned.progress)]

Report(st) ==
    /\ progress' = st.progress
    /\ published' = st.published
    /\ pending' = st.pending

\* the catch block up to its await, lines 182-191; failedAt keeps the stage
\* the run stood at when the exception was raised
Catch(st, loc, errorMessage) ==
    /\ Report(updateProgress([st EXCEPT !.progress.errors = Append(@, errorMessage)],
                             [stage |-> "ERROR"]))
    /\ locals' = [loc EXCEPT !.errorMessage = errorMessage,
                             !.failedAt = Some(st.progress.stage)]
    /\ pc' = "updateJobStatusFailed"

\* a faulty variant of FailDiscovery: a research task that failed or timed
\* out is submitted once more
FailDiscoveryResubmit(st, loc, error) ==
    IF loc.researchTasks = 1
    THEN /\ Report(st)
         /\ locals' = loc
         /\ pc' = "runDiscoveryStage"
    ELSE Catch(st, loc, IF TruthyStr(error) THEN Val(error) ELSE "Discovery failed")

\* runDiscoveryStage returned { success: false, error }: line 102 throws
\* new Error(discoveryResult.error || 'Discovery failed')
FailDiscovery(st, loc, error) ==
    Catch(st, loc, IF TruthyStr(error) THEN Val(error) ELSE "Discovery failed")

\* a store call was rejected
StoreError == "Database error"

\* an AI service call was rejected
ServiceError == "OpenAI request failed"

\* updateJobStatus's update of the job row, lines 416-427
updateJobStatus(row, status, data) ==
    [row EXCEPT !.status = status,
                !.businessesFound = IF data.businessesFound # None
                                    THEN Val(data.businessesFound) ELSE @,
                !.businessesQualified = IF data.businessesQualified # None
                                        THEN Val(data.businessesQualified) ELSE @,
                !.error = IF TruthyStr(data.error) THEN data.error ELSE @]

\* the types a job can have, the `type` parameter of createResearchJob
JobTypes == {"REGION_DISCOVERY", "BUSINESS_ENRICHMENT", "PERMIT_SCAN", "REVIEW_UPDATE"}

\* the job row createResearchJob inserts, lines 385-393, for a job of type
\* REGION_DISCOVERY
NewJob(status) ==
    [status |-> status, type |-> "REGION_DISCOVERY", progress |-> 0, error |-> None,
     openaiResponseId |-> None, businessesFound |-> None, businessesQualified |-> None]

\* params.region?.county
County(p) == IF p.region = None THEN None ELSE Val(p.region).county

ParamChoices ==
    { [region |-> None], [region |-> Some([county |-> None])],
      [region |-> Some([county |-> Some("Travis")])] }

\* what startDeepResearch returns, research-jobs.tsx lines 319-351
StartOutcomes ==
    { [id |-> "resp_1", status |-> "pending", error |-> None],
      [id |-> "", status |-> "failed", error |-> Some("Connection error")],
      [id |-> "", status |-> "failed", error |-> Some("")] }

\* what getResearchStatus returns, research-jobs.tsx lines 356-391
PollOutcomes ==
    { [status |-> "pending", output |-> None, error |-> None],
      [status |-> "in_progress", output |-> None, error |-> None],
      [status |-> "completed", output |-> Some("report"), error |-> None],
      [status |-> "completed", output |-> None, error |-> None],
      [status |-> "failed", output |-> None, error |-> Some("Rate limit exceeded")],
      [status |-> "failed", output |-> None, error |-> None] }

\* ExtractedBusinessData, with the fields storeBusinesses writes to a column
\* that the scorers read; confidence is in hundredths
Extracted(name, city, county, website, foundedYear, niches, employeeEstimate, confidence) ==
    [name |-> name, city |-> city, county |-> county, website |-> website,
     foundedYear |-> foundedYear, niches |-> niches,
     employeeEstimate |-> employeeEstimate, confidence |-> confidence]

AcmeFull ==
    Extracted("Acme Air", "Austin", "Travis", Some("https://acme.example"),
              Some(BaseYear - 12), Some(<<Refrigeration>>), Some(12), 90)

AcmeBare == Extracted("Acme Air", "Austin", "Travis", None, None, None, None, 50)

Nameless == Extracted("", "Austin", "Travis", None, None, None, Some(3), 95)

Bolt == Extracted("Bolt HVAC", "Dallas", "Dallas", Some(""), Some(0), Some(<<>>), Some(0), 70)

\* Acme as the extraction returns it with empty values: website: "",
\* foundedYear: 0, niches: []
AcmeEmpty == Extracted("Acme Air", "Austin", "Travis", Some(""), Some(0), Some(<<>>), None, 80)

ExtractedLists ==
    { <<>>, <<AcmeFull>>, <<AcmeBare>>, <<Nameless>>, <<AcmeFull, AcmeBare>>,
      <<Nameless, Bolt>>, <<Bolt, AcmeFull>>, <<AcmeFull, AcmeEmpty>> }

\* what extractBusinessData does with discoveryResult.output || '', part_005
\* lines 118-148, whatever that text is: the completion request is rejected,
\* or its content is empty or is no valid business list (an empty list is
\* returned), or the list is returned
ExtractionOutcomes ==
    { [kind |-> "throws", businesses |-> <<>>],
      [kind |-> "unparsable", businesses |-> <<>>] }
    \cup {[kind |-> "parsed", businesses |-> l] : l \in ExtractedLists}

\* a business the store holds before the run, with the natural key of Acme
ExistingAcme ==
    Merge(BlankBusiness,
          [name |-> "Acme Air", city |-> "Austin", county |-> "Travis",
           website |-> Some("https://old.example"), foundedYear |-> Some(BaseYear - 30),
           employees |-> <<40>>])

NoBusinesses == [id \in {} |-> BlankBusiness]

NewIds == <<"n1", "n2", "n3">>

\* the id prisma.business.create gives the new row
NewId(table) == NewIds[Cardinality(DOMAIN table \cap {NewIds[k] : k \in 1..Len(NewIds)}) + 1]

\* Math.round(num / den) for num, den >= 0: the quotients i / length * 15 of
\* line 277 are exact doubles or fall within half a unit in the last place of
\* their integer value for the lengths of ExtractedLists
RoundQuot(num, den) == (2 * num + den) \div (2 * den)

\* a faulty variant of Matching: the lookup also asks for the same website
MatchingWebsiteToo(table, business) ==
    {id \in DOMAIN table : /\ table[id].name = business.name
                           /\ table[id].city = business.city
                           /\ table[id].county = business.county
                           /\ table[id].website = business.website}

\* the rows prisma.business.findFirst can return, lines 297-303
Matching(table, business) ==
    {id \in DOMAIN table : /\ table[id].name = business.name
                           /\ table[id].city = business.city
                           /\ table[id].county = business.county}

\* the row after prisma.business.update, lines 307-320
UpdatedBusiness(existing, business) ==
    [existing EXCEPT
        !.website = IF TruthyStr(business.website) THEN business.website ELSE @,
        !.niches = IF business.niches # None THEN Val(business.niches) ELSE @,
        !.foundedYear = IF TruthyNum(business.foundedYear)
                        THEN business.foundedYear ELSE @]

\* the row prisma.business.create inserts, lines 324-343
CreatedBusiness(business) ==
    Merge(BlankBusiness,
          [name |-> business.name, city |-> business.city, county |-> business.county,
           website |-> business.website,
           niches |-> IF business.niches # None THEN Val(business.niches) ELSE <<>>,
           foundedYear |-> business.foundedYear])

\* prisma.employeeEstimate.create, lines 358-367: the business's employees
\* relation gains a row
WithEstimate(row, business, created) ==
    IF created THEN [row EXCEPT !.employees = Append(@, Val(business.employeeEstimate))]
    ELSE row

\* where one pass of storeBusinesses' loop body can be rejected
StoreFailures == {"none", "findFirst", "write", "link", "employeeEstimate"}

\* one pass of the loop body of storeBusinesses for `business`, lines 295-370,
\* with `found` the row findFirst returned (None when there is none)
StoreOne(business, found, failAt) ==
    IF failAt \in {"findFirst", "write"}
    THEN /\ locals' = [locals EXCEPT !.i = @ + 1]
         /\ occurred' = occurred \cup {"store failure"}
         /\ UNCHANGED <<businesses, researchJobBusiness>>
    ELSE LET id == IF found = None THEN NewId(businesses) ELSE Val(found)
             written == IF found = None THEN CreatedBusiness(business)
                        ELSE UpdatedBusiness(businesses[id], business)
             estimated == TruthyNum(business.employeeEstimate)
                          /\ failAt # "employeeEstimate"
             row == WithEstimate(written, business, estimated)
         IN  /\ businesses' = (id :> row) @@ businesses
             /\ researchJobBusiness' =
                    IF failAt = "link" THEN researchJobBusiness
                    ELSE researchJobBusiness \cup {<<JobId, id>>}
             /\ locals' = [locals EXCEPT !.i = @ + 1, !.storedIds = Append(@, id)]
             /\ occurred' = IF failAt = "none" THEN occurred
                            ELSE occurred \cup {"store failure"}

\* whether the store and the AI services may still reject a call in this
\* behaviour; faults is None when nothing limits their rejections
MayFail == faults = None \/ Val(faults) > 0

\* faults after a rejection
Spend == IF faults = None THEN None ELSE Some(Val(faults) - 1)

\* what the store can answer to a query: it serves it (TRUE) or rejects it
StoreAnswers == IF MayFail THEN BOOLEAN ELSE {TRUE}

\* an updateJobStatus call without its optional data
NoData == [businessesFound |-> None, businessesQualified |-> None, error |-> None]

\* runRegionDiscoveryPipeline up to its first await, lines 63-100: a run
\* starts with a fresh progress record; the progress writes an earlier run
\* issued may still be under way
StartRun ==
    /\ result' = InitialResult
    /\ Report(updateProgress([progress |-> InitialProgress, published |-> <<>>,
                              pending |-> pending],
                             [stage |-> "DISCOVERY", progress |-> 10]))
    /\ locals' = IdleLocals
    /\ pc' = "runDiscoveryStage"

\* runRegionDiscoveryPipeline(jobId, params) called on its own
runRegionDiscoveryPipeline ==
    /\ pc = "idle"
    /\ StartRun
    /\ UNCHANGED <<params, job, occurred, unhandled, researchJobBusiness>>
    /\ UNCHANGED <<faults, runs, cancel>>
    /\ UNCHANGED scoreVars

\* startResearchJob(jobId) up to the answer of findUnique, lines 430-437; the
\* job is started when no run of it is under way
startResearchJob ==
    /\ pc \in {"created", "returned", "threw"}
    /\ runs < MaxRuns
    /\ Len(pending) < PoolSize
    /\ \E ok \in StoreAnswers :
        /\ pc' = IF ok THEN "updateJobStatusRunning" ELSE "threw"
        /\ faults' = IF ok THEN faults ELSE Spend
    /\ runs' = runs + 1
    /\ occurred' = {}
    /\ UNCHANGED <<params, progress, result, locals, job, pending, published, unhandled,
                   researchJobBusiness, cancel>>
    /\ UNCHANGED scoreVars

\* await updateJobStatus(jobId, 'RUNNING') in startResearchJob and what
\* follows it up to the next await, lines 439-446: for a REGION_DISCOVERY job
\* the call of runRegionDiscoveryPipeline up to its first await, for a job of
\* another type `throw new Error('Job type ... not yet implemented')`
updateJobStatusRunning ==
    /\ pc = "updateJobStatusRunning"
    /\ Len(pending) < PoolSize
    /\ \E ok \in StoreAnswers :
        IF ok
        THEN /\ job' = updateJobStatus(job, "RUNNING", NoData)
             /\ IF job.type = "REGION_DISCOVERY"
                THEN StartRun
                ELSE /\ pc' = "threw"
                     /\ UNCHANGED <<result, progress, published, pending, locals>>
             /\ UNCHANGED faults
        ELSE /\ pc' = "threw"
             /\ faults' = Spend
             /\ UNCHANGED <<job, result, progress, published, pending, locals>>
    /\ UNCHANGED <<params, occurred, unhandled, researchJobBusiness, runs, cancel>>
    /\ UNCHANGED scoreVars

\* cancelResearchJob(jobId) up to the answer of findUnique, lines 449-457
cancelResearchJob ==
    /\ cancel = "idle"
    /\ Len(pending) < PoolSize
    /\ \E ok \in StoreAnswers :
        /\ cancel' = IF ~ok THEN "threw"
                     ELSE IF TruthyStr(job.openaiResponseId) THEN "cancelResearch"
                     ELSE "updateJobStatus"
        /\ faults' = IF ok THEN faults ELSE Spend
    /\ UNCHANGED <<pc, params, progress, result, locals, job, pending, published,
                   occurred, unhandled, researchJobBusiness, runs>>
    /\ UNCHANGED scoreVars

\* await cancelResearch(job.openaiResponseId), lines 459-463 and
\* research-jobs.tsx lines 396-405: it answers true or false and never throws
cancelResearch ==
    /\ cancel = "cancelResearch"
    /\ cancel' = "updateJobStatus"
    /\ UNCHANGED <<pc, params, progress, result, locals, job, pending, published,
                   occurred, unhandled, researchJobBusiness, faults, runs>>
    /\ UNCHANGED scoreVars

\* await updateJobStatus(jobId, 'CANCELLED') in cancelResearchJob, line 464
updateJobStatusCancelled ==
    /\ cancel = "updateJobStatus"
    /\ Len(pending) < PoolSize
    /\ \E ok \in StoreAnswers :
        IF ok
        THEN /\ job' = updateJobStatus(job, "CANCELLED", NoData)
             /\ cancel' = "returned"
             /\ UNCHANGED faults
        ELSE /\ cancel' = "threw"
             /\ faults' = Spend
             /\ UNCHANGED job
    /\ UNCHANGED <<pc, params, progress, result, locals, pending, published,
                   occurred, unhandled, researchJobBusiness, runs>>
    /\ UNCHANGED scoreVars

\* runDiscoveryStage up to the store of the response id, lines 204-228
runDiscoveryStage ==
    /\ pc = "runDiscoveryStage"
    /\ IF ~TruthyStr(County(params))
       THEN /\ FailDiscovery(Reporting, locals,
                             Some("County is required for region discovery"))
            /\ UNCHANGED <<occurred, faults>>
       ELSE \E research \in {o \in StartOutcomes : o.status # "failed" \/ MayFail} :
                LET loc == [locals EXCEPT !.researchTasks = @ + 1]
                IN  IF research.status = "failed"
                    THEN /\ FailDiscovery(Reporting, loc, research.error)
                         /\ occurred' = occurred \cup {"research task failure"}
                         /\ faults' = Spend
                    ELSE /\ locals' = [loc EXCEPT !.responseId = Some(research.id)]
                         /\ pc' = "storeResponseId"
                         /\ UNCHANGED <<progress, published, pending, occurred, faults>>
    /\ UNCHANGED <<params, result, job, unhandled, researchJobBusiness, runs, cancel>>
    /\ UNCHANGED scoreVars

\* prisma.researchJob.update({ openaiResponseId }), lines 231-234
storeResponseId ==
    /\ pc = "storeResponseId"
    /\ Len(pending) < PoolSize
    /\ \E ok \in StoreAnswers :
        IF ok
        THEN /\ job' = [job EXCEPT !.openaiResponseId = locals.responseId]
             /\ locals' = [locals EXCEPT
                                !.options = WaitOptions(MaxWaitMs, initialDelayMs,
                                                        maxDelayMs),
                                !.delay = Eighths(initialDelayMs),
                                !.elapsed = 0, !.slept = <<>>, !.waited = None]
             /\ pc' = "waitForResearchCompletion"
             /\ UNCHANGED <<progress, published, pending, occurred, faults>>
        ELSE /\ Catch(Reporting, locals, StoreError)
             /\ occurred' = occurred \cup {"store failure"}
             /\ faults' = Spend
             /\ UNCHANGED job
    /\ UNCHANGED <<params, result, unhandled, researchJobBusiness, runs, cancel>>
    /\ UNCHANGED scoreVars

\* a faulty variant of TimedOut: the status of the last poll is passed on
TimedOutInProgress == [status |-> "in_progress", output |-> None, error |-> None]

\* the result waitForResearchCompletion returns when the wait has run out,
\* research-jobs.tsx lines 445-449
TimedOut == [status |-> "failed", output |-> None, error |-> Some("Research timed out")]

\* one pass of waitForResearchCompletion's loop, research-jobs.tsx lines
\* 429-449: the wait has run out and the timed-out result is returned, or the
\* poll's result is returned, or the loop sleeps `delay` and raises it.  The
\* time that passes is the time slept.
waitForResearchCompletion ==
    /\ pc = "waitForResearchCompletion"
    /\ IF locals.elapsed >= Eighths(locals.options.maxWaitMs)
       THEN /\ locals' = [locals EXCEPT !.waited = Some(TimedOut)]
            /\ pc' = "runDiscoveryStageReturn"
            /\ occurred' = occurred \cup {"timeout"}
            /\ UNCHANGED faults
       ELSE \E poll \in {o \in PollOutcomes : o.status # "failed" \/ MayFail} :
                IF poll.status \in {"completed", "failed"}
                THEN /\ locals' = [locals EXCEPT !.waited = Some(poll)]
                     /\ pc' = "runDiscoveryStageReturn"
                     /\ occurred' = IF poll.status = "failed"
                                    THEN occurred \cup {"research task failure"}
                                    ELSE occurred
                     /\ faults' = IF poll.status = "failed" THEN Spend ELSE faults
                ELSE /\ locals' = [locals EXCEPT
                                      !.elapsed = @ + locals.delay,
                                      !.slept = Append(@, locals.delay),
                                      !.delay = Min((3 * @) \div 2,
                                                    Eighths(locals.options.maxDelayMs))]
                     /\ UNCHANGED <<pc, occurred, faults>>
    /\ UNCHANGED <<params, progress, published, pending, result, job, unhandled,
                   researchJobBusiness, runs, cancel>>
    /\ UNCHANGED scoreVars

\* what runDiscoveryStage does with the result of the wait, pipeline.ts lines
\* 244-248, and what follows its return up to extractBusinessData, lines
\* 101-118; the locals of the wait are gone
runDiscoveryStageReturn ==
    /\ pc = "runDiscoveryStageReturn"
    /\ LET finalResult == Val(locals.waited)
           returned == [locals EXCEPT !.options = NoWait, !.delay = 0, !.elapsed = 0,
                                      !.slept = <<>>, !.waited = None]
       IN  IF finalResult.status = "completed"
           THEN /\ Report(updateProgress(
                            updateProgress(Reporting, [progress |-> 30,
                                                       businessesFound |-> 0]),
                            [stage |-> "EXTRACTION", progress |-> 40]))
                /\ locals' = returned
                /\ pc' = "extractBusinessData"
           ELSE FailDiscovery(Reporting, returned,
                              IF TruthyStr(finalResult.error) THEN finalResult.error
                              ELSE Some("Research did not complete"))
    /\ UNCHANGED <<params, result, job, occurred, unhandled, researchJobBusiness>>
    /\ UNCHANGED <<faults, runs, cancel>>
    /\ UNCHANGED scoreVars

\* extractBusinessData and what follows it up to validateBusinesses' loop,
\* pipeline.ts lines 118-134
extractBusinessData ==
    /\ pc = "extractBusinessData"
    /\ \E extraction \in {o \in ExtractionOutcomes : o.kind = "parsed" \/ MayFail} :
        IF extraction.kind = "throws"
        THEN /\ Catch(Reporting, locals, ServiceError)
             /\ faults' = Spend
             /\ UNCHANGED <<result, occurred>>
        ELSE LET found == Len(extraction.businesses)
             IN  /\ result' = [result EXCEPT !.stats.discovered = found]
                 /\ Report(updateProgress(
                             updateProgress(Reporting, [progress |-> 50,
                                                        businessesFound |-> found]),
                             [stage |-> "VALIDATION", progress |-> 55]))
                 /\ locals' = [locals EXCEPT !.extracted = extraction.businesses,
                                             !.validated = <<>>, !.i = 0]
                 /\ pc' = "validateBusinesses"
                 /\ occurred' = IF extraction.kind = "unparsable"
                                THEN occurred \cup {"extraction parse failure"}
                                ELSE occurred
                 /\ faults' = IF extraction.kind = "unparsable" THEN Spend ELSE faults
    /\ UNCHANGED <<params, job, unhandled, researchJobBusiness, runs, cancel>>
    /\ UNCHANGED scoreVars

\* one pass of validateBusinesses' loop, lines 257-283, or its end and what
\* follows up to storeBusinesses' loop, lines 135-144
validateBusinesses ==
    /\ pc = "validateBusinesses"
    /\ IF locals.i >= Len(locals.extracted)
       THEN /\ result' = [result EXCEPT !.stats.validated = Len(locals.validated)]
            /\ Report(updateProgress(Reporting, [stage |-> "STORAGE", progress |-> 70]))
            /\ locals' = [locals EXCEPT !.i = 0, !.storedIds = <<>>]
            /\ pc' = "storeBusinesses"
            /\ UNCHANGED faults
       ELSE LET business == locals.extracted[locals.i + 1]
            IN  IF business.name = "" \/ business.city = "" \/ business.county = ""
                THEN /\ locals' = [locals EXCEPT !.i = @ + 1]
                     /\ UNCHANGED <<pc, result, progress, published, pending, faults>>
                ELSE \E validation \in
                            IF business.confidence >= 70
                            THEN {"returns"} \cup (IF MayFail THEN {"throws"} ELSE {})
                            ELSE {"not asked"} :
                        IF validation = "throws"
                        THEN /\ Catch(Reporting, locals, ServiceError)
                             /\ faults' = Spend
                             /\ UNCHANGED result
                        ELSE /\ Report(updateProgress(Reporting,
                                    [progress |-> 55 + RoundQuot(locals.i * 15,
                                                                 Len(locals.extracted)),
                                     businessesProcessed |-> locals.i + 1]))
                             /\ locals' = [locals EXCEPT !.validated = Append(@, business),
                                                         !.i = @ + 1]
                             /\ UNCHANGED <<pc, result, faults>>
    /\ UNCHANGED <<params, job, occurred, unhandled, researchJobBusiness, runs, cancel>>
    /\ UNCHANGED scoreVars

\* one pass of storeBusinesses' loop, lines 294-371, or its end and what
\* follows up to the await of updateJobStatus, lines 145-176
storeBusinesses ==
    /\ pc = "storeBusinesses"
    /\ IF locals.i >= Len(locals.validated)
       THEN LET stored == Len(locals.storedIds)
            IN  /\ result' = [result EXCEPT !.businessIds = locals.storedIds,
                                           !.stats.stored = stored,
                                           !.stats.scored = stored,
                                           !.success = TRUE]
                /\ Report(updateProgress(
                            updateProgress(
                              updateProgress(Reporting, [progress |-> 85]),
                              [stage |-> "SCORING", progress |-> 90]),
                            [stage |-> "COMPLETE", progress |-> 100,
                             businessesProcessed |-> stored]))
                /\ pc' = "updateJobStatusCompleted"
                /\ UNCHANGED <<locals, occurred, researchJobBusiness, businesses, faults>>
       ELSE /\ Len(pending) < PoolSize
            /\ LET business == locals.validated[locals.i + 1]
                   matching == Matching(businesses, business)
               IN  \E failAt \in IF MayFail THEN StoreFailures ELSE {"none"} :
                   \E found \in IF matching = {} THEN {None}
                                ELSE {Some(id) : id \in matching} :
                       /\ failAt = "employeeEstimate" => TruthyNum(business.employeeEstimate)
                       /\ StoreOne(business, found, failAt)
                       /\ faults' = IF failAt = "none" THEN faults ELSE Spend
            /\ UNCHANGED <<pc, result, progress, published, pending>>
    /\ UNCHANGED <<params, job, unhandled, runs, cancel>>
    /\ UNCHANGED <<now, scores, lastCall, thrown, recCall, batch, calls>>

\* await updateJobStatus(jobId, 'COMPLETED', ...) and the return, lines
\* 176-181; when the update is rejected the catch block runs
updateJobStatusCompleted ==
    /\ pc = "updateJobStatusCompleted"
    /\ Len(pending) < PoolSize
    /\ \E ok \in StoreAnswers :
        IF ok
        THEN /\ job' = updateJobStatus(job, "COMPLETED",
                            [businessesFound |-> Some(result.stats.discovered),
                             businessesQualified |-> Some(result.stats.stored),
                             error |-> None])
             /\ pc' = "returned"
             /\ UNCHANGED <<progress, published, pending, locals, occurred, faults>>
        ELSE /\ Catch(Reporting, locals, StoreError)
             /\ occurred' = occurred \cup {"store failure"}
             /\ faults' = Spend
             /\ UNCHANGED job
    /\ UNCHANGED <<params, result, unhandled, researchJobBusiness, runs, cancel>>
    /\ UNCHANGED scoreVars

\* await updateJobStatus(jobId, 'FAILED', { error }) in the catch block and
\* the return, lines 191-196; when the update is rejected the rejection
\* leaves runRegionDiscoveryPipeline
updateJobStatusFailed ==
    /\ pc = "updateJobStatusFailed"
    /\ Len(pending) < PoolSize
    /\ \E ok \in StoreAnswers :
        IF ok
        THEN /\ job' = updateJobStatus(job, "FAILED",
                            [businessesFound |-> None, businessesQualified |-> None,
                             error |-> Some(locals.errorMessage)])
             /\ result' = [result EXCEPT !.stats.errors = Len(progress.errors)]
             /\ pc' = "returned"
             /\ UNCHANGED <<occurred, faults>>
        ELSE /\ pc' = "threw"
             /\ occurred' = occurred \cup {"store failure"}
             /\ faults' = Spend
             /\ UNCHANGED <<job, result>>
    /\ UNCHANGED <<params, progress, published, pending, locals, unhandled,
                   researchJobBusiness, runs, cancel>>
    /\ UNCHANGED scoreVars

\* the sequence s without its k-th element
Drop(s, k) == [j \in 1..(Len(s) - 1) |-> IF j < k THEN s[j] ELSE s[j + 1]]

\* updateJobProgress, lines 398-405: one of the progress writes the store is
\* serving completes, or is rejected with nobody awaiting it
updateJobProgress ==
    /\ \E k \in 1..Min(PoolSize, Len(pending)) :
        /\ pending' = Drop(pending, k)
        /\ \E ok \in StoreAnswers :
            IF ok
            THEN /\ job' = [job EXCEPT !.progress = pending[k]]
                 /\ UNCHANGED <<unhandled, occurred, faults>>
            ELSE /\ unhandled' = TRUE
                 /\ occurred' = occurred \cup {"store failure"}
                 /\ faults' = Spend
                 /\ UNCHANGED job
    /\ UNCHANGED <<pc, params, progress, result, locals, published, researchJobBusiness,
                   runs, cancel>>
    /\ UNCHANGED scoreVars

\* no run of the pipeline has started
PipeIdle ==
    /\ pc = "idle"
    /\ params = [region |-> None]
    /\ progress = InitialProgress
    /\ result = InitialResult
    /\ locals = IdleLocals
    /\ job = NewJob("PENDING")
    /\ pending = <<>>
    /\ published = <<>>
    /\ occurred = {}
    /\ unhandled = FALSE
    /\ researchJobBusiness = {}
    /\ faults = None
    /\ runs = 0
    /\ cancel = "idle"

\* no call of batchScoreBusinesses has been made
IdleBatch == [ids |-> <<>>, config |-> DEFAULT_SCORING_CONFIG, i |-> 0,
              scores |-> <<>>, log |-> <<>>]

\* the invocations that can be in flight at once
Invocations == 1..MaxInflight

\* no calculateBusinessScore invocation is in flight
IdleCalls == [c \in Invocations |-> [pc |-> "idle", config |-> None, row |-> None,
                                     exists |-> FALSE]]

\* no business has been scored
ScoreIdle ==
    /\ now = StartClock
    /\ scores = {}
    /\ lastCall = [id \in BusinessIds |-> None]
    /\ thrown = None
    /\ recCall = IdleRecCall
    /\ batch = IdleBatch
    /\ calls = IdleCalls

(***************************************************************************)
(* SpecScore: one business of ScoreFamily is in the store and is scored    *)
(* once, under any config.                                                 *)
(***************************************************************************)
InitScore ==
    /\ ScoreIdle
    /\ \E b \in ScoreFamily : businesses = [id \in {"b1"} |-> b]
    /\ PipeIdle

NextScore ==
    \E config \in Configs :
        /\ lastCall["b1"] = None
        /\ calculateBusinessScore("b1", config)

SpecScore == InitScore /\ [][NextScore]_vars

\* the Score rows stored for a business
ScoresOf(id) == {r \in scores : r.businessId = id}

\* the business was scored under the default config, and r is its Score
ScoredByDefault(id, r) ==
    /\ r \in ScoresOf(id)
    /\ lastCall[id] # None
    /\ Val(lastCall[id]).config = DEFAULT_SCORING_CONFIG

(***************************************************************************)
(* SpecRec: getRecommendation is called once, with any score from -1 to    *)
(* RecScoreMax and any three thresholds, ordered or not.                   *)
(***************************************************************************)
RecScoreMax == 101

ThresholdValues == {0, 25, 50, 75, 100}

RecConfigs ==
    {[DEFAULT_SCORING_CONFIG EXCEPT !.thresholds = t] :
        t \in [highPriority : ThresholdValues, mediumPriority : ThresholdValues,
               lowPriority : ThresholdValues]}

InitRec ==
    /\ now = StartClock
    /\ businesses = NoBusinesses
    /\ scores = {}
    /\ lastCall = [id \in BusinessIds |-> None]
    /\ thrown = None
    /\ \E s \in (-1)..RecScoreMax, c \in RecConfigs :
            recCall = [score |-> s, config |-> c, result |-> None]
    /\ batch = IdleBatch
    /\ calls = IdleCalls
    /\ PipeIdle

NextRec == Recommend

SpecRec == InitRec /\ [][NextRec]_vars

\* C1: for every score s and every config the recommendation is HIGH_PRIORITY
\* if s >= highPriority, otherwise MEDIUM_PRIORITY if s >= mediumPriority,
\* otherwise LOW_PRIORITY if s >= lowPriority, otherwise NOT_RECOMMENDED; a
\* score equal to highPriority gives HIGH_PRIORITY
C1_InclusiveThresholds ==
    recCall.result # None =>
        LET s == recCall.score
            t == recCall.config.thresholds
            r == Val(recCall.result)
        IN  /\ s >= t.highPriority => r = "HIGH_PRIORITY"
            /\ s < t.highPriority /\ s >= t.mediumPriority => r = "MEDIUM_PRIORITY"
            /\ s < t.highPriority /\ s < t.mediumPriority /\ s >= t.lowPriority
                    => r = "LOW_PRIORITY"
            /\ s < t.highPriority /\ s < t.mediumPriority /\ s < t.lowPriority
                    => r = "NOT_RECOMMENDED"
            /\ s = t.highPriority => r # "MEDIUM_PRIORITY"

\* a score of exactly 75 was given a recommendation under the default config
C1_Witness ==
    /\ recCall.config = DEFAULT_SCORING_CONFIG
    /\ recCall.score = 75
    /\ recCall.result = Some("HIGH_PRIORITY")

\* C2: the overallScore of every stored Score is the rounded sum of the
\* component scores stored in the same Score, each times the top-level
\* weight that the config of the call gives it (the sum and the rounding
\* being those of JavaScript numbers)
C2_OverallIsWeightedSum ==
    \A id \in BusinessIds : \A r \in ScoresOf(id) :
        lastCall[id] # None =>
            r.overallScore =
                OverallScore(r.revenueProxyScore, r.onlineWeaknessScore,
                             r.acquisitionFitScore, r.growthSignalsScore,
                             Val(lastCall[id]).config.weights)

\* a business was scored under a config other than the default one, with four
\* different component scores
C2_Witness ==
    \E r \in ScoresOf("b1") :
        /\ r.configVersion = "2.0"
        /\ Cardinality({r.revenueProxyScore, r.onlineWeaknessScore,
                        r.acquisitionFitScore, r.growthSignalsScore}) = 4

\* C3: under the default config each of the four component scores and the
\* overallScore of any business is an integer from 0 to 100
C3_ScoresInRange ==
    \A id \in BusinessIds : \A r \in scores :
        ScoredByDefault(id, r) =>
            /\ r.revenueProxyScore \in 0..100
            /\ r.onlineWeaknessScore \in 0..100
            /\ r.acquisitionFitScore \in 0..100
            /\ r.growthSignalsScore \in 0..100
            /\ r.overallScore \in 0..100

\* a business founded more than 50 years ago, with a negative employee count
\* or with every factor of a component at its top was scored under the default
\* config
C3_Witness ==
    \E r \in scores :
        /\ ScoredByDefault("b1", r)
        /\ \/ r.acquisitionFitScore = 100
           \/ businesses["b1"].employees = <<-1>>
           \/ businesses["b1"].foundedYear = Some(BaseYear - 51)

\* the business has every optional field absent
AllAbsent(b) ==
    /\ b.employees = <<>> /\ b.fleet = <<>> /\ b.permits = NoPermits
    /\ b.serviceRadius = None /\ b.website = None /\ b.facebookUrl = None
    /\ b.linkedinUrl = None /\ b.instagramUrl = None /\ b.reviews = <<>>
    /\ b.ownershipType = None /\ b.foundedYear = None /\ b.niches = <<>>
    /\ b.successionStatus = None /\ b.ownerAge = None

\* C7, as stated: a business with every optional field absent, scored under
\* the default config, gets an overallScore below 50 and the recommendation
\* LOW_PRIORITY or NOT_RECOMMENDED
C7_BlankBelow50 ==
    \A id \in DOMAIN businesses : \A r \in scores :
        ScoredByDefault(id, r) /\ AllAbsent(businesses[id]) =>
            /\ r.overallScore < 50
            /\ r.recommendation \in {"LOW_PRIORITY", "NOT_RECOMMENDED"}

\* C7, amended: a business with every optional field absent, scored under the
\* default config, gets the component scores 10, 92, 50 and 60, the
\* overallScore 51 and the recommendation MEDIUM_PRIORITY
C7_BlankIs51 ==
    \A id \in DOMAIN businesses : \A r \in scores :
        ScoredByDefault(id, r) /\ AllAbsent(businesses[id]) =>
            /\ r.revenueProxyScore = 10
            /\ r.onlineWeaknessScore = 92
            /\ r.acquisitionFitScore = 50
            /\ r.growthSignalsScore = 60
            /\ r.overallScore = 51
            /\ r.recommendation = "MEDIUM_PRIORITY"

\* the business with every optional field absent was scored under the default
\* config
C7_Witness ==
    \E r \in scores : ScoredByDefault("b1", r) /\ AllAbsent(businesses["b1"])

\* the ideal acquisition target at the time `clock`
IsIdeal(b, clock) ==
    /\ Len(b.employees) > 0 /\ b.employees[1] = 25
    /\ Len(b.fleet) > 0 /\ b.fleet[1] = 10
    /\ RecentPermits(b, clock) = 150
    /\ b.serviceRadius = Some(50)
    /\ ~TruthyStr(b.website) /\ ~TruthyStr(b.facebookUrl)
    /\ ~TruthyStr(b.linkedinUrl) /\ ~TruthyStr(b.instagramUrl)
    /\ TotalReviews(b.reviews, Len(b.reviews)) = 5
    /\ b.ownershipType = Some("FAMILY_OWNED")
    /\ b.foundedYear = Some(GetFullYear(clock) - 15)
    /\ b.niches = <<Refrigeration>>
    /\ b.successionStatus = Some("OWNER_RETIRING")
    /\ b.ownerAge = Some(62)

\* C8: the ideal acquisition target (25 employees, fleet of 10, 150 permits in
\* the last twelve months however split over the two calendar years, radius
\* 50, no website, no social links, 5 reviews of any rating, FAMILY_OWNED,
\* founded 15 years ago, niche refrigeration, OWNER_RETIRING, owner aged 62),
\* scored under the default config, gets an overallScore of at least 75 and
\* the recommendation HIGH_PRIORITY
C8_IdealIsHighPriority ==
    \A id \in DOMAIN businesses : \A r \in scores :
        ScoredByDefault(id, r) /\ IsIdeal(businesses[id], Val(lastCall[id]).at) =>
            /\ r.overallScore >= 75
            /\ r.recommendation = "HIGH_PRIORITY"

\* the ideal target was scored with all its recent permits in the prior
\* calendar year and poorly rated reviews, the least favourable growth signals
C8_Witness ==
    \E r \in scores :
        /\ ScoredByDefault("b1", r)
        /\ IsIdeal(businesses["b1"], Val(lastCall["b1"]).at)
        /\ r.growthSignalsScore < 50

(***************************************************************************)
(* SpecMono: two businesses that differ by one employee and agree on fleet *)
(* size, permits and service radius are each scored once under the default *)
(* config.                                                                 *)
(***************************************************************************)
MaxEmployees == 50

MonoOthers ==
    [fleet : {<<>>, <<2>>, <<10>>},
     permits : PermitBags({<<0, 0, 0, 0>>, <<0, 49, 1, 0>>, <<0, 100, 50, 0>>}),
     serviceRadius : {None, Some(7), Some(20)}]

InitMono ==
    /\ ScoreIdle
    /\ \E e \in 0..(MaxEmployees - 1), others \in MonoOthers :
            businesses =
                [id \in BusinessIds |->
                    Merge(Merge(BlankBusiness, others),
                          [employees |-> <<IF id = "b1" THEN e ELSE e + 1>>])]
    /\ PipeIdle

NextMono ==
    \E id \in BusinessIds :
        /\ lastCall[id] = None
        /\ calculateBusinessScore(id, DEFAULT_SCORING_CONFIG)

SpecMono == InitMono /\ [][NextMono]_vars

\* C4: with fleet size, permits and service radius held fixed, one employee
\* more never lowers the Revenue Proxy score up to 25 employees and never
\* raises it from 25 to 50 employees
C4_PeakAt25 ==
    \A r1 \in ScoresOf("b1") : \A r2 \in ScoresOf("b2") :
        LET e == businesses["b1"].employees[1]
        IN  /\ e + 1 <= 25 => r1.revenueProxyScore <= r2.revenueProxyScore
            /\ e >= 25 /\ e + 1 <= 50 => r1.revenueProxyScore >= r2.revenueProxyScore

\* the businesses with 24 and with 25 employees were both scored, and the one
\* with 25 scored strictly higher
C4_Witness ==
    \E r1 \in ScoresOf("b1") : \E r2 \in ScoresOf("b2") :
        /\ businesses["b1"].employees = <<24>>
        /\ r1.revenueProxyScore < r2.revenueProxyScore

(***************************************************************************)
(* SpecStore: up to two businesses are in the store; any of them, or an    *)
(* id the store does not hold, is scored again and again under any config  *)
(* while time passes.                                                      *)
(***************************************************************************)
MaxCalls == 2

StoreConfigs == {c \in Configs : c.version \in {"1.0", "2.0"}}

StoreProfiles ==
    { BlankBusiness,
      Merge(IdealBusiness(0, 75, 0, <<Review(45, 5)>>),
            [foundedYear |-> Some(BaseYear - 9)]) }

InitStore ==
    /\ ScoreIdle
    /\ \E b1 \in StoreProfiles :
        \/ businesses = [id \in {"b1"} |-> b1]
        \/ businesses = [id \in BusinessIds |->
                            IF id = "b1" THEN b1 ELSE IdealBusiness(40, 150, 2, <<>>)]
    /\ PipeIdle

NextStore ==
    \/ \E id \in BusinessIds, config \in StoreConfigs :
            /\ Calls(lastCall[id]) < MaxCalls
            /\ calculateBusinessScore(id, config)
    \/ Tick

SpecStore == InitStore /\ [][NextStore]_vars

\* C5, as stated: two invocations with the same business data and the same
\* config produce the same Score, whenever they run
C5_SameInputsSameScore ==
    [][\A id \in BusinessIds :
            (/\ lastCall[id] # None
             /\ lastCall'[id] # None
             /\ Val(lastCall'[id]).n = Val(lastCall[id]).n + 1
             /\ Val(lastCall'[id]).business = Val(lastCall[id]).business
             /\ Val(lastCall'[id]).config = Val(lastCall[id]).config)
            => Val(lastCall'[id]).score = Val(lastCall[id]).score]_vars

\* C6: the store holds at most one Score per business, none for a business
\* never scored, and the one it holds has the values of the most recent
\* completed invocation for that business
C6_OneLatestScore ==
    \A id \in BusinessIds :
        /\ Cardinality(ScoresOf(id)) <= 1
        /\ lastCall[id] = None => ScoresOf(id) = {}
        /\ lastCall[id] # None => ScoresOf(id) = {Val(lastCall[id]).score}

\* both businesses were scored more than once, the last time under different
\* configs
C6_Witness ==
    /\ \A id \in BusinessIds : Calls(lastCall[id]) = MaxCalls
    /\ \E r1 \in ScoresOf("b1"), r2 \in ScoresOf("b2") :
            r1.configVersion # r2.configVersion

(***************************************************************************)
(* SpecPipe: one run of runRegionDiscoveryPipeline for a job, on a store   *)
(* that is empty or holds one business, with every store and service call *)
(* free to succeed or to be rejected.                                      *)
(***************************************************************************)
\* the job as createResearchJob leaves it (PENDING) or as startResearchJob
\* hands it to the run (RUNNING)
PipeStarts ==
    {[params |-> p, businesses |-> NoBusinesses, status |-> "PENDING"] :
        p \in ParamChoices}
    \cup {[params |-> [region |-> Some([county |-> Some("Travis")])],
           businesses |-> [id \in {"b1"} |-> ExistingAcme], status |-> "RUNNING"]}

InitPipe ==
    /\ ScoreIdle
    /\ \E start \in PipeStarts :
            /\ params = start.params
            /\ businesses = start.businesses
            /\ job = NewJob(start.status)
    /\ pc = "idle"
    /\ progress = InitialProgress
    /\ result = InitialResult
    /\ locals = IdleLocals
    /\ pending = <<>>
    /\ published = <<>>
    /\ occurred = {}
    /\ unhandled = FALSE
    /\ researchJobBusiness = {}
    /\ faults = None
    /\ runs = 0
    /\ cancel = "idle"

NextPipe ==
    \/ runRegionDiscoveryPipeline
    \/ runDiscoveryStage
    \/ storeResponseId
    \/ waitForResearchCompletion
    \/ runDiscoveryStageReturn
    \/ extractBusinessData
    \/ validateBusinesses
    \/ storeBusinesses
    \/ updateJobStatusCompleted
    \/ updateJobStatusFailed
    \/ updateJobProgress

SpecPipe == InitPipe /\ [][NextPipe]_vars

\* the stages the progress record went through: INIT, then the stage of each
\* published update that changed it
RECURSIVE StageChanges(_, _)
StageChanges(log, k) ==
    IF k = 0 THEN <<"INIT">>
    ELSE LET before == StageChanges(log, k - 1)
         IN  IF log[k].stage = before[Len(before)] THEN before
             ELSE Append(before, log[k].stage)

StagesSoFar == StageChanges(published, Len(published))

IsPrefix(s, t) == Len(s) <= Len(t) /\ \A k \in 1..Len(s) : s[k] = t[k]

\* an exception was raised while one of the five working stages was running
StageFailed ==
    /\ locals.failedAt # None
    /\ Val(locals.failedAt) \in {"DISCOVERY", "EXTRACTION", "VALIDATION", "STORAGE",
                                 "SCORING"}

\* C9, as stated: the stages reported through the progress record are a
\* prefix of INIT, DISCOVERY, EXTRACTION, VALIDATION, STORAGE, SCORING,
\* COMPLETE, optionally followed by ERROR; ERROR is entered only when a stage
\* failed; no stage change follows COMPLETE or ERROR
C9_StageOrder ==
    LET stages == StagesSoFar
        last == stages[Len(stages)]
        body == IF last = "ERROR" THEN SubSeq(stages, 1, Len(stages) - 1) ELSE stages
    IN  /\ IsPrefix(body, PipelineStages)
        /\ last = "ERROR" => StageFailed
        /\ \A k \in 1..(Len(stages) - 1) : stages[k] \notin {"COMPLETE", "ERROR"}

\* the run is over: it returned its result or the call was rejected
RunOver == pc \in {"returned", "threw"}

\* C10, as stated: when a pipeline-level error occurred during a run (the
\* research task failed, the wait timed out, the extraction output could not
\* be parsed, a store operation failed), the run returns a result instead of
\* throwing and the job record ends with a non-empty error string
C10_ErrorsCaughtAndRecorded ==
    RunOver /\ occurred # {} =>
        /\ pc = "returned"
        /\ job.error # None
        /\ Val(job.error) # ""

\* C11, as stated: once a run has reached COMPLETE, every business the run
\* stored has a Score, unless the scoring of a business failed
C11_StoredAreScored ==
    (\E k \in 1..Len(published) : published[k].stage = "COMPLETE") =>
        \A j \in 1..Len(result.businessIds) :
            \/ \E r \in scores : r.businessId = result.businessIds[j]
            \/ thrown # None

\* C15: a run calls startDeepResearch at most once, whatever fails afterwards
C15_OneResearchTask == locals.researchTasks <= 1

\* a run submitted its research task, the wait for it timed out, and the run
\* returned
C15_Witness ==
    /\ pc = "returned"
    /\ locals.researchTasks = 1
    /\ "timeout" \in occurred

\* the percent-complete values the orchestrator names, pipeline.ts lines 69-170
Checkpoints == {0, 10, 30, 40, 50, 55, 70, 85, 90, 100}

\* C17, as stated: every percent-complete value a run publishes, to the
\* progress callback and to the job record, is one of the fixed checkpoints,
\* however many businesses were extracted
C17_FixedCheckpoints ==
    /\ \A k \in 1..Len(published) : published[k].progress \in Checkpoints
    /\ job.progress \in Checkpoints

(***************************************************************************)
(* SpecWait: one call of waitForResearchCompletion, with the options the  *)
(* pipeline passes and with other options.                                 *)
(***************************************************************************)
WaitChoices ==
    { WaitOptions(MaxWaitMs, initialDelayMs, maxDelayMs),
      WaitOptions(0, initialDelayMs, maxDelayMs),
      WaitOptions(20000, initialDelayMs, maxDelayMs),
      WaitOptions(120000, 40000, maxDelayMs),
      WaitOptions(60000, 1000, 2000),
      WaitOptions(20000, initialDelayMs, 2000) }

InitWait ==
    /\ ScoreIdle
    /\ businesses = NoBusinesses
    /\ params = [region |-> Some([county |-> Some("Travis")])]
    /\ job = [NewJob("RUNNING") EXCEPT !.openaiResponseId = Some("resp_1")]
    /\ pc = "waitForResearchCompletion"
    /\ progress = InitialProgress
    /\ result = InitialResult
    /\ \E options \in WaitChoices :
            locals = [IdleLocals EXCEPT !.responseId = Some("resp_1"),
                                        !.options = options,
                                        !.delay = Eighths(options.initialDelayMs)]
    /\ pending = <<>>
    /\ published = <<>>
    /\ occurred = {}
    /\ unhandled = FALSE
    /\ researchJobBusiness = {}
    /\ faults = None
    /\ runs = 0
    /\ cancel = "idle"

NextWait == waitForResearchCompletion

SpecWait == InitWait /\ [][NextWait]_vars

\* the event loop runs the continuation of every await that resolves
SpecWaitFair == SpecWait /\ WF_vars(waitForResearchCompletion)

\* waitForResearchCompletion has returned
WaitOver == pc = "runDiscoveryStageReturn"

\* C13: waitForResearchCompletion terminates; the result it returns has the
\* status completed or failed; unless the wait ran out it is the result of a
\* poll, returned before maxWaitMs had elapsed; when the wait ran out it is
\* status failed with the error 'Research timed out' and no output
C13_WaitTerminates ==
    /\ <>WaitOver
    /\ [](WaitOver =>
            LET waited == Val(locals.waited)
            IN  /\ locals.waited # None
                /\ waited.status \in {"completed", "failed"}
                /\ IF locals.elapsed >= Eighths(locals.options.maxWaitMs)
                   THEN /\ waited.status = "failed"
                        /\ waited.error = Some("Research timed out")
                        /\ waited.output = None
                   ELSE waited \in PollOutcomes)

\* a wait with a positive maxWaitMs slept several times and then ran out
C13_Witness ==
    /\ WaitOver
    /\ locals.options.maxWaitMs > 0
    /\ Len(locals.slept) > 2
    /\ locals.elapsed >= Eighths(locals.options.maxWaitMs)
    /\ "timeout" \in occurred

\* C14, as stated: for every choice of options the delays slept start at
\* initialDelayMs, each later delay is 1.5 times the one before capped at
\* maxDelayMs, the delays never decrease and none exceeds maxDelayMs
C14_BackoffShape ==
    LET slept == locals.slept
        cap == Eighths(locals.options.maxDelayMs)
    IN  /\ Len(slept) > 0 => slept[1] = Eighths(locals.options.initialDelayMs)
        /\ \A k \in 1..(Len(slept) - 1) :
                /\ 2 * slept[k + 1] = Min(3 * slept[k], 2 * cap)
                /\ slept[k + 1] >= slept[k]
        /\ \A k \in 1..Len(slept) : slept[k] <= cap

(***************************************************************************)
(* SpecBatch: one call of batchScoreBusinesses with up to MaxBatch ids, on *)
(* a store that holds one or both of the businesses and may reject a call. *)
(***************************************************************************)
MaxBatch == 3

BatchIds == UNION {[1..n -> BusinessIds] : n \in 0..MaxBatch}

InitBatch ==
    /\ now = StartClock
    /\ \/ businesses = [id \in {"b1"} |-> BlankBusiness]
       \/ businesses = [id \in BusinessIds |->
                            IF id = "b1" THEN BlankBusiness
                            ELSE IdealBusiness(40, 150, 2, <<>>)]
    /\ scores = {}
    /\ lastCall = [id \in BusinessIds |-> None]
    /\ thrown = None
    /\ recCall = IdleRecCall
    /\ \E ids \in BatchIds : batch = [IdleBatch EXCEPT !.ids = ids]
    /\ calls = IdleCalls
    /\ PipeIdle

NextBatch == batchScoreBusinesses

SpecBatch == InitBatch /\ [][NextBatch]_vars

\* batchScoreBusinesses has returned batch.scores
BatchOver == batch.i = Len(batch.ids)

\* the entries of the log whose scoring succeeded
Succeeded == SelectSeq(batch.log, LAMBDA e : e.score # None)

\* C12: batchScoreBusinesses tries the ids one after another in input order,
\* goes on after a failure, and returns exactly the Scores of the ids whose
\* scoring succeeded, in input order
C12_BatchIsolatesFailures ==
    /\ \A k \in 1..Len(batch.log) : batch.log[k].id = batch.ids[k]
    /\ BatchOver => Len(batch.log) = Len(batch.ids)
    /\ Len(batch.scores) = Len(Succeeded)
    /\ \A k \in 1..Len(batch.scores) :
            /\ batch.scores[k] = Val(Succeeded[k].score)
            /\ batch.scores[k].businessId = Succeeded[k].id

\* a batch of three ids returned two Scores: the scoring of its second id
\* failed and the third id was scored all the same
C12_Witness ==
    /\ BatchOver
    /\ Len(batch.ids) = 3
    /\ batch.log[2].score = None
    /\ batch.log[3].score # None
    /\ Len(batch.scores) = 2

(***************************************************************************)
(* SpecConc: up to MaxInflight invocations of calculateBusinessScore for   *)
(* the same business in flight at once, under any configs, while time      *)
(* passes.                                                                 *)
(***************************************************************************)
InitConc ==
    /\ ScoreIdle
    /\ \E b \in StoreProfiles : businesses = [id \in {"b1"} |-> b]
    /\ PipeIdle

NextConc ==
    \/ \E c \in Invocations, config \in StoreConfigs : scoreInvoke(c, config)
    \/ \E c \in Invocations : scoreFindUnique(c, "b1")
    \/ \E c \in Invocations : scoreUpsertSelect(c)
    \/ \E c \in Invocations : scoreUpsertWrite(c)
    \/ Tick

SpecConc == InitConc /\ [][NextConc]_vars

\* C16: under any interleaving of the invocations for a business, the stored
\* Score is the complete output of one invocation: every field is the one
\* that invocation computed, and the recommendation and the overallScore
\* agree with the stored component scores under that invocation's config
C16_StoredScoreIsOneOutput ==
    \A r \in scores :
        \E c \in Invocations :
            /\ calls[c].row = Some(r)
            /\ LET config == Val(calls[c].config)
               IN  /\ r.configVersion = config.version
                   /\ r.overallScore =
                        OverallScore(r.revenueProxyScore, r.onlineWeaknessScore,
                                     r.acquisitionFitScore, r.growthSignalsScore,
                                     config.weights)
                   /\ r.recommendation = getRecommendation(r.overallScore, config)

\* two invocations for the same business raced: they computed different
\* Scores under different configs, each looked the row up before the other
\* wrote it, the first inserted its row and the second was rejected
C16_Witness ==
    /\ calls[1].pc = "returned"
    /\ calls[2].pc = "threw"
    /\ thrown = Some("Unique constraint failed")
    /\ calls[1].row # calls[2].row
    /\ Val(calls[1].config) # Val(calls[2].config)
    /\ scores = calls[1].row

(***************************************************************************)
(* SpecRuns: a job is started with startResearchJob, up to MaxRuns times,  *)
(* each time after its previous run is over, and a business of the store   *)
(* is scored after a run.  The store and the services reject at most       *)
(* MaxFaults calls.                                                        *)
(***************************************************************************)
MaxFaults == 1

\* createResearchJob has inserted the job and nothing else has happened; the
\* store and the services will reject at most `budget` calls
JobCreated(budget) ==
    /\ ScoreIdle
    /\ \E start \in PipeStarts :
            /\ params = start.params
            /\ businesses = start.businesses
    /\ job = NewJob("PENDING")
    /\ pc = "created"
    /\ progress = InitialProgress
    /\ result = InitialResult
    /\ locals = IdleLocals
    /\ pending = <<>>
    /\ published = <<>>
    /\ occurred = {}
    /\ unhandled = FALSE
    /\ researchJobBusiness = {}
    /\ faults = Some(budget)
    /\ runs = 0
    /\ cancel = "idle"

\* the steps of startResearchJob and of the run it starts
RunSteps ==
    \/ startResearchJob
    \/ updateJobStatusRunning
    \/ runDiscoveryStage
    \/ storeResponseId
    \/ waitForResearchCompletion
    \/ runDiscoveryStageReturn
    \/ extractBusinessData
    \/ validateBusinesses
    \/ storeBusinesses
    \/ updateJobStatusCompleted
    \/ updateJobStatusFailed
    \/ updateJobProgress

InitRuns == JobCreated(MaxFaults)

NextRuns ==
    \/ RunSteps
    \/ \E id \in BusinessIds :
            /\ pc = "returned"
            /\ id \in DOMAIN businesses
            /\ lastCall[id] = None
            /\ calculateBusinessScore(id, DEFAULT_SCORING_CONFIG)

SpecRuns == InitRuns /\ [][NextRuns]_vars

(***************************************************************************)
(* SpecJobs: the same job, with one call of cancelResearchJob at any       *)
(* moment, on a store and services that answer every call.                 *)
(***************************************************************************)
InitJobs == JobCreated(0)

NextJobs ==
    \/ RunSteps
    \/ cancelResearchJob
    \/ cancelResearch
    \/ updateJobStatusCancelled

SpecJobs == InitJobs /\ [][NextJobs]_vars

\* the natural key of a business row
NaturalKey(b) == <<b.name, b.city, b.county>>

\* C18: the store never holds two records with the same (name, city,
\* county), and a record is created only for a natural key that no record of
\* the store has
C18_NoDuplicateKeys ==
    /\ [](\A id1, id2 \in DOMAIN businesses :
            id1 # id2 => NaturalKey(businesses[id1]) # NaturalKey(businesses[id2]))
    /\ [][\A id \in DOMAIN businesses' \ DOMAIN businesses :
            \A old \in DOMAIN businesses :
                NaturalKey(businesses'[id]) # NaturalKey(businesses[old])]_vars

\* two runs in a row extracted the business Acme Air into a store that was
\* empty: the first created its record, the second updated it, and each
\* recorded an employee estimate for it
C18_Witness ==
    /\ runs = 2
    /\ pc = "returned"
    /\ DOMAIN businesses = {"n1"}
    /\ businesses["n1"].name = "Acme Air"
    /\ Len(businesses["n1"].employees) = 2
    /\ locals.storedIds = <<"n1">>

\* the business with, of its employee and fleet estimates, the one recorded
\* last only
LatestOnly(b) ==
    [b EXCEPT !.employees = IF @ = <<>> THEN @ ELSE <<@[Len(@)]>>,
              !.fleet = IF @ = <<>> THEN @ ELSE <<@[Len(@)]>>]

\* C19, as stated: the Score of a business is the one computed from its most
\* recently recorded employee and fleet estimates; older estimates are not
\* read
C19_LatestEstimateScored ==
    \A id \in BusinessIds :
        lastCall[id] # None =>
            LET call == Val(lastCall[id])
            IN  call.score = ComputeScore(id, LatestOnly(call.business), call.config,
                                          call.at)

\* the statuses of a job that is over
Terminal == {"COMPLETED", "FAILED", "CANCELLED"}

\* C20, as stated: once the status of a job is COMPLETED, FAILED or CANCELLED
\* it never changes again
C20_TerminalStatusStays ==
    [][job.status \in Terminal => job'.status = job.status]_vars

(***************************************************************************)
(* SpecTypes: a job of any type is created and started with                *)
(* startResearchJob, up to MaxRuns times, on a store and services that     *)
(* answer every call; SpecTypesFair adds that every call returns, so that  *)
(* a step that can be taken is taken.                                      *)
(***************************************************************************)
InitTypes ==
    /\ ScoreIdle
    /\ \E start \in PipeStarts :
            /\ params = start.params
            /\ businesses = start.businesses
    /\ \E type \in JobTypes : job = [NewJob("PENDING") EXCEPT !.type = type]
    /\ pc = "created"
    /\ progress = InitialProgress
    /\ result = InitialResult
    /\ locals = IdleLocals
    /\ pending = <<>>
    /\ published = <<>>
    /\ occurred = {}
    /\ unhandled = FALSE
    /\ researchJobBusiness = {}
    /\ faults = Some(0)
    /\ runs = 0
    /\ cancel = "idle"

NextTypes == RunSteps

SpecTypes == InitTypes /\ [][NextTypes]_vars

SpecTypesFair == SpecTypes /\ WF_vars(NextTypes)

\* C21, as stated: every job that startResearchJob has set to RUNNING
\* eventually has the status COMPLETED, FAILED or CANCELLED, whatever its type
C21_RunningJobsFinish == (job.status = "RUNNING") ~> (job.status \in Terminal)

(***************************************************************************)
(* SpecAcq: a business with any succession status and any owner age up to  *)
(* MaxOwnerAge, or with one of a family of niche lists, is in the store and *)
(* is scored once, under any config.                                       *)
(***************************************************************************)
MaxOwnerAge == 70

SuccessionStatuses ==
    {None} \cup {Some(t) : t \in {"OWNER_RETIRING", "NO_SUCCESSOR", "SUCCESSION_PLANNED",
                                  "RECENTLY_TRANSITIONED", "UNKNOWN"}}

OwnerAges == {None} \cup {Some(a) : a \in 0..MaxOwnerAge}

IceRefrigeration == <<"i", "c", "e", " ">> \o Refrigeration

NicheLists ==
    { <<>>, <<Refrigeration>>, <<Residential>>, << <<>> >>,
      <<Residential, <<"I", "n", "d", "u", "s", "t", "r", "i", "a", "l">> >>,
      << <<"C", "L", "E", "A", "N", "_", "R", "O", "O", "M", "S">> >>,
      << <<"r", "e", "s", "t", "a", "u", "r", "a", "n", "t", "s">>, Residential >>,
      <<IceRefrigeration>>,
      << <<"r", "e", "s", "t", "a", "u", "r", "a", "n", "t">> >> }

AcqFamily ==
    {Merge(BlankBusiness, [successionStatus |-> st, ownerAge |-> age]) :
        st \in SuccessionStatuses, age \in OwnerAges}
    \cup {Merge(BlankBusiness, [niches |-> n]) : n \in NicheLists}

InitAcq ==
    /\ ScoreIdle
    /\ \E b \in AcqFamily : businesses = [id \in {"b1"} |-> b]
    /\ PipeIdle

NextAcq == NextScore

SpecAcq == InitAcq /\ [][NextAcq]_vars

\* the score the succession status alone gives
StatusScore(successionStatus) ==
    CASE successionStatus = Some("OWNER_RETIRING") -> 100
      [] successionStatus = Some("NO_SUCCESSOR") -> 90
      [] successionStatus = Some("SUCCESSION_PLANNED") -> 40
      [] successionStatus = Some("RECENTLY_TRANSITIONED") -> 20
      [] OTHER -> 50

\* the k-th factor of the Acquisition Fit component in the Score that the last
\* call for the business computed
AcquisitionFactor(id, k) == Val(lastCall[id]).score.breakdown.acquisitionFit.factors[k]

\* C22: the succession factor score is the score of the status (OWNER_RETIRING
\* 100, NO_SUCCESSOR 90, SUCCESSION_PLANNED 40, RECENTLY_TRANSITIONED 20,
\* otherwise 50), raised to at least 85 when the owner age is 60 or more and to
\* at least 70 when it is 55 to 59; it is never below the score of the status
C22_SuccessionOnlyRaised ==
    \A id \in BusinessIds :
        lastCall[id] # None =>
            LET b == Val(lastCall[id]).business
                base == StatusScore(b.successionStatus)
                age == b.ownerAge
                expected == IF age # None /\ Val(age) >= 60 THEN Max(base, 85)
                            ELSE IF age # None /\ Val(age) >= 55 THEN Max(base, 70)
                            ELSE base
                f == AcquisitionFactor(id, 4)
            IN  /\ f.name = "Succession Status"
                /\ f.score = 2 * expected
                /\ f.score >= 2 * base

\* a business whose owner is retiring at 60 or more was scored: the status
\* gives 100, above the 85 of the age, and 100 was kept
C22_Witness ==
    /\ lastCall["b1"] # None
    /\ businesses["b1"].successionStatus = Some("OWNER_RETIRING")
    /\ businesses["b1"].ownerAge = Some(60)
    /\ AcquisitionFactor("b1", 4).score = 2 * 100

\* str has sub as a substring
Contains(str, sub) ==
    \E k \in 0..(Len(str) - Len(sub)) : SubSeq(str, k + 1, k + Len(sub)) = sub

\* C23, as stated: the niche specialization factor is 100 when some niche tag
\* of the business contains, whatever the case of its letters, one of
\* refrigeration, clean_rooms, industrial and restaurants as a substring, 80
\* for any other non-empty niche list and 50 for an empty one
C23_NicheSubstring ==
    \A id \in BusinessIds :
        lastCall[id] # None =>
            LET niches == Val(lastCall[id]).business.niches
                premium == \E i \in 1..Len(niches), j \in 1..Len(PremiumNiches) :
                               Contains(ToLowerCase(niches[i]), PremiumNiches[j])
                f == AcquisitionFactor(id, 3)
            IN  f.score = 2 * (IF premium THEN 100 ELSE IF niches # <<>> THEN 80 ELSE 50)

(***************************************************************************)
(* SpecOnline: two businesses with any website, social links and reviews   *)
(* of OnlineFamily are each scored once under the default config.          *)
(***************************************************************************)
SocialLinks(facebookUrl, linkedinUrl, instagramUrl) ==
    [facebookUrl |-> facebookUrl, linkedinUrl |-> linkedinUrl,
     instagramUrl |-> instagramUrl]

OnlineFamily ==
    {Merge(Merge(BlankBusiness, [website |-> w, reviews |-> r]), links) :
        w \in {None, Some(""), Some("https://acme.example")},
        links \in {SocialLinks(None, None, None), SocialLinks(Some(""), None, None),
                   SocialLinks(None, Some("li"), None),
                   SocialLinks(Some("fb"), None, Some("ig"))},
        r \in {<<>>, <<Review(45, 10)>>, <<Review(30, 4), Review(20, 6)>>}}
    \cup {Merge(Merge(BlankBusiness, [website |-> Some("http://bolt.example"),
                                      reviews |-> r]),
                SocialLinks(Some("fb"), Some("li"), Some("ig"))) :
            r \in {<<Review(30, 4), Review(20, 6)>>, <<Review(10, 9)>>,
                   <<Review(39, 50)>>}}

InitOnline ==
    /\ ScoreIdle
    /\ \E o1, o2 \in OnlineFamily :
            businesses = [id \in BusinessIds |-> IF id = "b1" THEN o1 ELSE o2]
    /\ PipeIdle

NextOnline == NextMono

SpecOnline == InitOnline /\ [][NextOnline]_vars

\* the business has a website
HasWebsite(b) == b.website \notin {None, Some("")}

\* the business has at least one of the three social links
HasSocial(b) ==
    \E u \in {b.facebookUrl, b.linkedinUrl, b.instagramUrl} : u \notin {None, Some("")}

\* the total review count of the business
ReviewTotal(b) == SumSeq([i \in 1..Len(b.reviews) |-> b.reviews[i].reviewCount],
                         Len(b.reviews))

\* the Online Weakness component in the Score that the last call for the
\* business computed
OnlineWeakness(id) == Val(lastCall[id]).score.breakdown.onlineWeakness

\* C24: the Online Weakness component depends on nothing but whether the
\* business has a website, whether it has at least one social link and its
\* total review count; the website and the social presence factors score 90
\* to 100 when absent and 40 to 50 when present; a business that differs from
\* another by having a website or a social link the other has not never has
\* the higher component score
C24_OnlinePresenceIsBinary ==
    /\ \A id \in BusinessIds :
            lastCall[id] # None =>
                LET b == businesses[id]
                    f == OnlineWeakness(id).factors
                IN  /\ f[1].score \in IF HasWebsite(b) THEN (2 * 40)..(2 * 50)
                                                        ELSE (2 * 90)..(2 * 100)
                    /\ f[2].score \in IF HasSocial(b) THEN (2 * 40)..(2 * 50)
                                                       ELSE (2 * 90)..(2 * 100)
    /\ lastCall["b1"] # None /\ lastCall["b2"] # None =>
            LET b1 == businesses["b1"]
                b2 == businesses["b2"]
            IN  /\ ( /\ HasWebsite(b1) = HasWebsite(b2)
                     /\ HasSocial(b1) = HasSocial(b2)
                     /\ ReviewTotal(b1) = ReviewTotal(b2) )
                        => OnlineWeakness("b1") = OnlineWeakness("b2")
                /\ ( /\ HasWebsite(b1) => HasWebsite(b2)
                     /\ HasSocial(b1) => HasSocial(b2)
                     /\ ReviewTotal(b1) = ReviewTotal(b2) )
                        => OnlineWeakness("b2").score <= OnlineWeakness("b1").score

\* two businesses with the same review total were scored, one with a website
\* and one social link, the other with another website, three social links
\* and other reviews: they got the same component score
C24_Witness ==
    /\ lastCall["b1"] # None /\ lastCall["b2"] # None
    /\ businesses["b1"].website = Some("https://acme.example")
    /\ businesses["b2"].website = Some("http://bolt.example")
    /\ businesses["b1"].facebookUrl = None /\ businesses["b1"].instagramUrl = None
    /\ businesses["b1"].linkedinUrl = Some("li")
    /\ businesses["b2"].facebookUrl = Some("fb") /\ businesses["b2"].linkedinUrl = Some("li")
    /\ businesses["b2"].instagramUrl = Some("ig")
    /\ businesses["b1"].reviews = <<Review(45, 10)>>
    /\ businesses["b2"].reviews = <<Review(30, 4), Review(20, 6)>>
    /\ OnlineWeakness("b1").score = OnlineWeakness("b2").score

(***************************************************************************)
(* SpecGrowth: a business with up to MaxPermits permits in each of two     *)
(* calendar years, and permits without an issue date, is scored once under *)
(* the default config, at any time.                                        *)
(***************************************************************************)
MaxPermits == 12

GrowthFamily ==
    {Merge(BlankBusiness, [permits |-> PermitBag(older[1], prev, cur, older[2])]) :
        older \in {<<0, 0>>, <<2, 3>>}, prev \in 0..MaxPermits, cur \in 0..MaxPermits}

InitGrowth ==
    /\ ScoreIdle
    /\ \E b \in GrowthFamily : businesses = [id \in {"b1"} |-> b]
    /\ PipeIdle

NextGrowth ==
    \/ /\ lastCall["b1"] = None
       /\ Tick
    \/ /\ lastCall["b1"] = None
       /\ calculateBusinessScore("b1", DEFAULT_SCORING_CONFIG)

SpecGrowth == InitGrowth /\ [][NextGrowth]_vars

\* the permits of the business issued in the calendar year
PermitsIssuedIn(b, year) ==
    SumOver(b.permits, {d \in DOMAIN b.permits :
                            d # None /\ Val(d) \div SlotsPerYear = year})

\* the Growth Signals component in the Score that the last call for the
\* business computed
GrowthSignals(id) == Val(lastCall[id]).score.breakdown.growthSignals

\* C25: with c the permits issued in the calendar year of the call and p
\* those issued in the year before, permits without an issue date left out,
\* the permit trend factor is 60 if p = 0 and otherwise, with g = (c - p) / p,
\* 100 if g >= 20%, else 85 if g >= 10%, else 70 if g >= 0, else 50 if
\* g >= -10%, else 30
C25_PermitTrend ==
    \A id \in BusinessIds :
        lastCall[id] # None =>
            LET call == Val(lastCall[id])
                year == call.at \div SlotsPerYear
                c == PermitsIssuedIn(call.business, year)
                p == PermitsIssuedIn(call.business, year - 1)
                expected == IF p = 0 THEN 60
                            ELSE IF 100 * (c - p) >= 20 * p THEN 100
                            ELSE IF 100 * (c - p) >= 10 * p THEN 85
                            ELSE IF 100 * (c - p) >= 0 THEN 70
                            ELSE IF 100 * (c - p) >= (-10) * p THEN 50
                            ELSE 30
                f == GrowthSignals(id).factors[1]
            IN  /\ f.name = "Permit Trend"
                /\ f.score = 2 * expected

\* a business with 5 permits of the prior year, 6 permits of the current
\* year and 3 permits without a date was scored: 6 against 5 is a growth of
\* exactly 20% and scored 100
C25_Witness ==
    /\ lastCall["b1"] # None
    /\ businesses["b1"].permits = PermitBag(2, 3, 6, 3)
    /\ Val(lastCall["b1"]).at \div SlotsPerYear = BaseYear
    /\ GrowthSignals("b1").factors[1].score = 2 * 100

\* C30: in every Score the hiring activity factor and the fleet growth factor
\* of the Growth Signals component score 60, with the weights 0.25 and 0.15,
\* whatever the data of the business
C30_NeutralPlaceholders ==
    \A id \in BusinessIds :
        lastCall[id] # None =>
            LET f == GrowthSignals(id).factors
            IN  /\ f[3] = Factor("Hiring Activity", 60, 25)
                /\ f[4] = Factor("Fleet Growth", 60, 15)

\* a business with an employee estimate and a fleet estimate was scored
C30_Witness ==
    /\ lastCall["b1"] # None
    /\ businesses["b1"].employees = <<25, 3>>
    /\ businesses["b1"].fleet = <<10, 1>>
    /\ GrowthSignals("b1").factors[3].score = 2 * 60

\* C26, as stated: the progress stored on the job record never decreases
\* during a run, and it is 100 once a run that returned success has finished
\* and the progress writes it issued have completed, in whatever order they
\* complete
C26_StoredProgressMonotone ==
    /\ [][job'.progress >= job.progress]_vars
    /\ [](pc = "returned" /\ result.success /\ pending = <<>> => job.progress = 100)

\* C27, as stated: when storeBusinesses updates the record an extracted
\* business matches, no stored website, niche list or founded year that was
\* non-empty becomes empty or absent, a field the extraction does not supply
\* keeps its stored value, and name, city and county are unchanged
C27_UpdateKeepsStoredValues ==
    [][\A id \in DOMAIN businesses \cap DOMAIN businesses' :
          businesses'[id] # businesses[id] =>
            LET old == businesses[id]
                new == businesses'[id]
                business == locals.validated[locals.i + 1]
            IN  /\ NaturalKey(new) = NaturalKey(old)
                /\ TruthyStr(old.website) => TruthyStr(new.website)
                /\ old.niches # <<>> => new.niches # <<>>
                /\ TruthyNum(old.foundedYear) => TruthyNum(new.foundedYear)
                /\ business.website = None => new.website = old.website
                /\ business.niches = None => new.niches = old.niches
                /\ business.foundedYear = None => new.foundedYear = old.foundedYear]_vars

\* C28: a call of calculateBusinessScore with an id that matches no
\* business raises 'Business not found', unless the store rejected the query,
\* and creates or modifies no Score; batchScoreBusinesses skips such an id,
\* goes on with the next one and leaves the Scores stored for the other
\* businesses as they were
C28_UnknownIdIsSkipped ==
    [][(batch.i < Len(batch.ids) /\ batch.ids[batch.i + 1] \notin DOMAIN businesses) =>
            /\ thrown' \in {Some("Business not found"), Some("Database error")}
            /\ scores' = scores
            /\ batch'.scores = batch.scores
            /\ batch'.i = batch.i + 1]_vars

\* a batch of the ids b1 and b2 over a store without b2 has returned: b1 was
\* scored, the call for b2 raised 'Business not found' and only the Score of
\* b1 is stored and returned
C28_Witness ==
    /\ BatchOver
    /\ batch.ids = <<"b1", "b2">>
    /\ "b2" \notin DOMAIN businesses
    /\ thrown = Some("Business not found")
    /\ Cardinality(scores) = 1
    /\ Len(batch.scores) = 1
    /\ batch.scores[1] \in scores

(***************************************************************************)
(* SpecFactors: two records of the same business are each scored once,     *)
(* under configs that may differ in their factors tables, in their         *)
(* top-level weights and thresholds, or in both.                           *)
(***************************************************************************)
\* factors tables other than the default ones: other weights, other names
\* and scorers, and no factor at all
FactorTables ==
    { DefaultFactors,
      [DefaultFactors EXCEPT
          !.revenueProxy = << FactorConfig("employeeCount", 70, "employeeScorer"),
                              FactorConfig("fleetSize", 10, "fleetScorer"),
                              FactorConfig("permitVolume", 10, "permitScorer"),
                              FactorConfig("serviceArea", 10, "serviceAreaScorer") >>,
          !.growthSignals = << FactorConfig("permitTrend", 100, "permitTrendScorer") >>],
      [DefaultFactors EXCEPT
          !.onlineWeakness = << FactorConfig("seo", 50, "seoAuditScorer"),
                                FactorConfig("ads", 50, "adSpendScorer") >>,
          !.acquisitionFit = << FactorConfig("ownerAge", 100, "ownerAgeScorer") >>],
      [revenueProxy |-> <<>>, onlineWeakness |-> <<>>, acquisitionFit |-> <<>>,
       growthSignals |-> <<>>] }

FactorConfigs ==
    {[c EXCEPT !.factors = f] : c \in StoreConfigs, f \in FactorTables}

InitFactors ==
    /\ ScoreIdle
    /\ \E b \in MixBusinesses \cup BaseProfiles :
            businesses = [id \in BusinessIds |-> b]
    /\ PipeIdle

NextFactors ==
    \E id \in BusinessIds, config \in FactorConfigs :
        /\ lastCall[id] = None
        /\ calculateBusinessScore(id, config)

SpecFactors == InitFactors /\ [][NextFactors]_vars

\* what a Score holds apart from the id of its business
ScoreContent(score) ==
    [revenueProxyScore |-> score.revenueProxyScore,
     onlineWeaknessScore |-> score.onlineWeaknessScore,
     acquisitionFitScore |-> score.acquisitionFitScore,
     growthSignalsScore |-> score.growthSignalsScore,
     overallScore |-> score.overallScore,
     recommendation |-> score.recommendation,
     breakdown |-> score.breakdown,
     configVersion |-> score.configVersion]

\* C29: the Score of a business does not depend on the factors tables of the
\* config: under two configs with the same top-level weights, thresholds and
\* version the component scores, the breakdown with its factor weights, the
\* overallScore and the recommendation are the same, and the component scores
\* and the breakdown are the same under any two configs
C29_FactorsTablesIgnored ==
    lastCall["b1"] # None /\ lastCall["b2"] # None =>
        LET c1 == Val(lastCall["b1"]).config
            c2 == Val(lastCall["b2"]).config
            s1 == Val(lastCall["b1"]).score
            s2 == Val(lastCall["b2"]).score
        IN  /\ s1 \in scores /\ s2 \in scores
            /\ s1.breakdown = s2.breakdown
            /\ ( /\ c1.weights = c2.weights
                 /\ c1.thresholds = c2.thresholds
                 /\ c1.version = c2.version )
                    => ScoreContent(s1) = ScoreContent(s2)

\* the same business was scored under the default config and under a config
\* that differs from it by its factors tables only, and got the same scores
C29_Witness ==
    /\ lastCall["b1"] # None /\ lastCall["b2"] # None
    /\ Val(lastCall["b1"]).config = DEFAULT_SCORING_CONFIG
    /\ Val(lastCall["b2"]).config.factors.growthSignals =
            << FactorConfig("permitTrend", 100, "permitTrendScorer") >>
    /\ Val(lastCall["b2"]).config.version = "1.0"
    /\ Val(lastCall["b1"]).score.overallScore = Val(lastCall["b2"]).score.overallScore
    /\ businesses["b1"].employees = <<25>>

====
